---------------------------- MODULE Spec2Model ----------------------------
(***************************************************************************)
(* A model of wstd: the block_on driver and its reactor, the stream        *)
(* adapters AsyncInputStream / AsyncOutputStream, io::copy, and the HTTP   *)
(* body engine.  Each component has its own specification over the shared  *)
(* variables; the variables of the other components keep their initial     *)
(* values.                                                                 *)
(***************************************************************************)
EXTENDS Integers, Sequences, FiniteSets, TLC

VARIABLES
    \* ---- runtime (src/runtime/block_on.rs, the reactor, src/time/mod.rs)
    REACTOR,      \* the thread-local singleton: None or Some(id of a reactor)
    pc,           \* where the instance is: idle | loop | final | panicked
    calls,        \* number of reactors constructed so far (ids are 1, 2, ...)
    outer,        \* id of the reactor of the active outermost block_on
    tasks,        \* sequence of task records; task 1 is the root task
    ready_list,   \* FIFO of runnable task ids
    wakers,       \* pollable -> sequence of task ids to wake
    hostReady,    \* the pollables the host reports ready
    last,         \* what the driver did in its last step
    \* ---- host streams (wasi:io/streams, as used by src/io/streams.rs)
    inS,          \* the host input stream
    outS,         \* the host output stream
    \* ---- stream adapters (src/io/streams.rs): one frame per async fn
    rd,           \* AsyncInputStream::read
    wr,           \* AsyncOutputStream::write
    wa,           \* AsyncOutputStream::write_all
    cp,           \* AsyncInputStream::copy_to
    \* ---- io::copy (src/io/copy.rs)
    fb,           \* the read / write_all loop of io::copy
    \* ---- HTTP body engine (src/http/body.rs)
    sd,           \* Body::send
    ib,           \* the receiving Body: its variant, decoder and contents()
    hb,           \* the host's outgoing-body / incoming-body pair
    \* ---- HTTP server (src/http/server.rs, macro/src/lib.rs)
    sv,           \* one call of the generated handle entry point
    \* ---- HTTP client (src/http/client.rs)
    cl,           \* a Client and one call of Client::send
    \* ---- TCP (src/net/tcp_stream.rs)
    tcp,          \* one call of TcpStream::connect and the stream it returns
    \* ---- time (src/time/mod.rs)
    tm,           \* the clocks, one Interval and one call of duration_since
    \* ---- streams of items and shared streams (src/io/streams.rs)
    bs,           \* an AsyncInputByteStream over the input stream
    sh            \* the readers that share one AsyncInputStream by reference

rtVars == <<REACTOR, pc, calls, outer, tasks, ready_list, wakers, hostReady, last>>

ioVars == <<inS, outS, rd, wr, wa>>

cpVars == <<cp, fb>>

bodyVars == <<sd, ib, hb>>

srvVars == <<sv>>

strVars == <<bs, sh>>

libVars == <<cl, tcp, tm, strVars>>

\* everything outside the runtime
appVars == <<ioVars, cpVars, bodyVars, srvVars, libVars>>

vars == <<rtVars, appVars>>

\* Option<T>: None is the empty set, Some(x) is {x}.
None == {}

Some(x) == {x}

(***************************************************************************)
(* Bounds of the model.                                                    *)
(***************************************************************************)
MaxProgLen == 2      \* operations of a root future
NumPollables == 2    \* timers a future may subscribe to
MaxCalls == 2        \* sequential block_on calls on one instance
MaxLen == 2          \* bytes of a stream's content or of a caller's buffer
MaxCap == 2          \* bytes an output stream permits at a time

Pollables == 1..NumPollables

(***************************************************************************)
(* Futures.  A future is a straight-line program of operations; each run   *)
(* of its task executes operations until one of them suspends.             *)
(*   Timer p  : Timer::after(..).wait().await on pollable p;               *)
(*              p = 0 is Timer::never().wait().await                       *)
(*   Yield    : wake the own waker and return Pending once                 *)
(*   Spin     : wake the own waker and return Pending on every run         *)
(*   Spawn k  : spawn the task ChildProg(k)                                *)
(*   Nested   : call block_on(async {}) from inside the future             *)
(***************************************************************************)
Op(o, a) == [op |-> o, arg |-> a]

ChildProg(k) == IF k = 0 THEN <<Op("Spin", 0)>> ELSE <<Op("Timer", k)>>

RootOps ==
    {Op("Yield", 0), Op("Nested", 0)}
        \cup {Op("Timer", p) : p \in 0..NumPollables}
        \cup {Op("Spawn", k) : k \in 0..NumPollables}

RECURSIVE SeqsUpTo(_, _)
SeqsUpTo(S, n) ==
    IF n = 0 THEN {<<>>}
    ELSE LET shorter == SeqsUpTo(S, n - 1)
         IN  shorter \cup {Append(s, x) : s \in {q \in shorter : Len(q) = n - 1}, x \in S}

RootProgs == SeqsUpTo(RootOps, MaxProgLen)

Task(prog, r) == [prog |-> prog, ip |-> 1, state |-> "runnable", reactor |-> r]

Root == 1

(***************************************************************************)
(* Timer::never() holds no pollable; Timer::after(p) holds pollable p.     *)
(* Wait::poll: without a pollable it is Pending and registers nothing;     *)
(* with one it is whatever the WaitFor says.                               *)
(***************************************************************************)
TimerWaitFor(p) == IF p = 0 THEN None ELSE Some(p)

WaitPoll(wait_for, waitForReady) ==
    IF wait_for = None THEN "Pending"
    ELSE IF waitForReady THEN "Ready" ELSE "Pending"

(***************************************************************************)
(* The reactor.  WaitFor::poll is ready when the host reports the pollable *)
(* ready and otherwise registers the waker.  A wake appends the task to    *)
(* the ready list unless it is already there.                              *)
(***************************************************************************)
InSeq(x, s) == \E i \in 1..Len(s) : s[i] = x

Wake(rl, t) == IF InSeq(t, rl) THEN rl ELSE Append(rl, t)

RECURSIVE WakeAll(_, _)
WakeAll(rl, ws) == IF ws = <<>> THEN rl ELSE WakeAll(Wake(rl, Head(ws)), Tail(ws))

PendingPollables(wk) == {p \in Pollables : wk[p] # <<>>}

\* check_pollables: every registered pollable the host reports ready has its
\* waker list drained and its tasks woken, in the order of the pollable keys.
RECURSIVE CheckFrom(_, _, _, _)
CheckFrom(p, rl, wk, ready) ==
    IF p > NumPollables THEN [ready_list |-> rl, wakers |-> wk]
    ELSE IF p \in ready /\ wk[p] # <<>>
         THEN CheckFrom(p + 1, WakeAll(rl, wk[p]), [wk EXCEPT ![p] = <<>>], ready)
         ELSE CheckFrom(p + 1, rl, wk, ready)

CheckPollables(rl, wk, ready) == CheckFrom(1, rl, wk, ready)


(***************************************************************************)
(* block_on, lines 12-18: construct a reactor, store it in the singleton,  *)
(* and panic when the singleton was already set.                           *)
(***************************************************************************)
BlockOnEntryUnchecked(prev, id) == [REACTOR |-> Some(id), panic |-> FALSE]

BlockOnEntry(prev, id) == [REACTOR |-> Some(id), panic |-> prev # None]

\* block_on, line 45: when the driver checks the pollables without blocking.
NeedsCheckNever(last_run_awake, rl) == FALSE

NeedsCheck(last_run_awake, rl) == last_run_awake \/ rl # <<>>

\* block_on, line 52: the singleton after the loop.
SingletonKept == REACTOR

SingletonAtExit == None

(***************************************************************************)
(* One run of task t (Runnable::run): poll its future.  st carries the     *)
(* task table, the additions to the ready list, the wakers, the singleton, *)
(* whether the task woke itself, and whether the run panicked.             *)
(***************************************************************************)
RECURSIVE RunFuture(_, _)
RunFuture(t, st) ==
    LET tk == st.tasks[t]
        next == [st EXCEPT !.tasks[t].ip = tk.ip + 1]
    IN
    IF tk.ip > Len(tk.prog) THEN [st EXCEPT !.tasks[t].state = "done"]
    ELSE LET o == tk.prog[tk.ip] IN
      CASE o.op = "Yield" -> [next EXCEPT !.awake = TRUE]
        [] o.op = "Spin" -> [st EXCEPT !.awake = TRUE]
        [] o.op = "Timer" ->
             LET wf == TimerWaitFor(o.arg)
                 r  == WaitPoll(wf, wf \subseteq hostReady)
             IN  IF r = "Ready" THEN RunFuture(t, next)
                 ELSE IF wf = None THEN [st EXCEPT !.tasks[t].state = "parked"]
                 ELSE [st EXCEPT !.tasks[t].state = "parked",
                                 !.wakers[o.arg] = Wake(st.wakers[o.arg], t)]
        [] o.op = "Spawn" ->
             LET id == Len(st.tasks) + 1 IN
             RunFuture(t, [next EXCEPT
                 !.tasks = Append(next.tasks, Task(ChildProg(o.arg), outer)),
                 !.ready_list = Append(st.ready_list, id)])
        [] o.op = "Nested" ->
             LET e == BlockOnEntry(st.REACTOR, st.calls + 1) IN
             IF e.panic
             THEN [st EXCEPT !.REACTOR = e.REACTOR, !.calls = st.calls + 1,
                             !.panic = TRUE, !.nested = TRUE]
             ELSE \* block_on(async {}) runs its root task to completion,
                  \* clears the singleton and returns
                  RunFuture(t, [next EXCEPT
                      !.tasks = Append(next.tasks,
                                  [Task(<<>>, st.calls + 1) EXCEPT !.state = "done"]),
                      !.REACTOR = None, !.calls = st.calls + 1, !.nested = TRUE])

Last(kind, t, awake, checked, nested) ==
    [kind |-> kind, task |-> t, awake |-> awake, checked |-> checked, nested |-> nested]

(***************************************************************************)
(* block_on, lines 12-25: entry from outside any block_on.                 *)
(***************************************************************************)
Enter(prog) ==
    /\ pc = "idle"
    /\ calls < MaxCalls
    /\ LET e == BlockOnEntry(REACTOR, calls + 1) IN
       /\ REACTOR' = e.REACTOR
       /\ calls' = calls + 1
       /\ outer' = calls + 1
       /\ IF e.panic
          THEN /\ pc' = "panicked"
               /\ last' = Last("reentry", 0, FALSE, FALSE, TRUE)
               /\ UNCHANGED <<tasks, ready_list, wakers, hostReady>>
          ELSE /\ pc' = "loop"
               /\ tasks' = <<Task(prog, calls + 1)>>
               /\ ready_list' = <<Root>>
               /\ wakers' = [p \in Pollables |-> <<>>]
               /\ hostReady' = {}
               /\ last' = Last("enter", 0, FALSE, FALSE, FALSE)
    /\ UNCHANGED appVars

\* a driver that leaves its loop as soon as the root task is complete
BreakAtRootDone ==
    /\ pc = "loop"
    /\ tasks[Root].state = "done"
    /\ REACTOR' = SingletonAtExit
    /\ pc' = "final"
    /\ last' = Last("break", 0, FALSE, FALSE, last.nested)
    /\ UNCHANGED <<calls, outer, tasks, ready_list, wakers, hostReady, appVars>>

(***************************************************************************)
(* block_on, line 31 and 51-52: nothing runnable and no pending pollable.  *)
(***************************************************************************)
Break ==
    /\ pc = "loop"
    /\ ready_list = <<>>
    /\ PendingPollables(wakers) = {}
    /\ REACTOR' = SingletonAtExit
    /\ pc' = "final"
    /\ last' = Last("break", 0, FALSE, FALSE, last.nested)
    /\ UNCHANGED <<calls, outer, tasks, ready_list, wakers, hostReady, appVars>>

(***************************************************************************)
(* block_on, line 34: nothing runnable, block until the host reports one   *)
(* of the pending pollables ready.                                         *)
(***************************************************************************)
BlockOnPollables ==
    /\ pc = "loop"
    /\ ready_list = <<>>
    /\ PendingPollables(wakers) # {}
    /\ PendingPollables(wakers) \cap hostReady # {}
    /\ LET c == CheckPollables(ready_list, wakers, hostReady) IN
       /\ ready_list' = c.ready_list
       /\ wakers' = c.wakers
       /\ tasks' = [i \in DOMAIN tasks |->
                      IF InSeq(i, c.ready_list)
                      THEN [tasks[i] EXCEPT !.state = "runnable"] ELSE tasks[i]]
    /\ last' = Last("block", 0, FALSE, TRUE, last.nested)
    /\ UNCHANGED <<REACTOR, pc, calls, outer, hostReady, appVars>>

(***************************************************************************)
(* block_on, lines 35-48: run the task at the head of the ready list, and  *)
(* check the pollables without blocking if it woke itself or the ready     *)
(* list is not empty.                                                      *)
(***************************************************************************)
RunTask ==
    /\ pc = "loop"
    /\ ready_list # <<>>
    /\ \E t \in {Head(ready_list)} :
       \E r \in {RunFuture(t, [tasks |-> tasks, ready_list |-> Tail(ready_list),
                               wakers |-> wakers, REACTOR |-> REACTOR,
                               calls |-> calls, awake |-> FALSE,
                               panic |-> FALSE, nested |-> last.nested])} :
       \E last_run_awake \in {r.awake} :
       \E rl \in {IF last_run_awake THEN Wake(r.ready_list, t) ELSE r.ready_list} :
       \E check \in {NeedsCheck(last_run_awake, rl)} :
       \E c \in {IF check THEN CheckPollables(rl, r.wakers, hostReady)
                  ELSE [ready_list |-> rl, wakers |-> r.wakers]} :
       /\ REACTOR' = r.REACTOR
       /\ calls' = r.calls
       /\ IF r.panic
          THEN /\ pc' = "panicked"
               /\ last' = Last("reentry", t, FALSE, FALSE, TRUE)
               /\ UNCHANGED <<tasks, ready_list, wakers>>
          ELSE /\ pc' = "loop"
               /\ ready_list' = c.ready_list
               /\ wakers' = c.wakers
               /\ tasks' = [i \in DOMAIN r.tasks |->
                              IF InSeq(i, c.ready_list)
                              THEN [r.tasks[i] EXCEPT !.state = "runnable"]
                              ELSE r.tasks[i]]
               /\ last' = Last("run", t, last_run_awake, check, r.nested)
    /\ UNCHANGED <<outer, hostReady, appVars>>

(***************************************************************************)
(* block_on, lines 53-63: take the result out of the root task.            *)
(***************************************************************************)
Final ==
    /\ pc = "final"
    /\ IF tasks[Root].state = "done"
       THEN /\ pc' = "idle"
            /\ last' = Last("return", Root, FALSE, FALSE, last.nested)
       ELSE /\ pc' = "panicked"
            /\ last' = Last("unreachable", Root, FALSE, FALSE, last.nested)
    /\ UNCHANGED <<REACTOR, calls, outer, tasks, ready_list, wakers, hostReady, appVars>>

\* The host: a timer that a future of this call creates (now or later) fires.
TimerOf(p) ==
    \E i \in DOMAIN tasks : \E k \in tasks[i].ip..Len(tasks[i].prog) :
        tasks[i].prog[k] \in {Op("Timer", p), Op("Spawn", p)}

HostReady(p) ==
    /\ pc = "loop"
    /\ p \notin hostReady
    /\ TimerOf(p)
    /\ hostReady' = hostReady \cup {p}
    /\ UNCHANGED <<REACTOR, pc, calls, outer, tasks, ready_list, wakers, last, appVars>>

(***************************************************************************)
(* Host streams.                                                           *)
(*                                                                         *)
(* An input stream has bytes that arrived and are unread (avail), bytes    *)
(* still to arrive (future), and what it reports once both are empty       *)
(* (end: open, closed or failed).  Its pollable is ready when bytes are    *)
(* available, when it has ended, or spuriously (spur).  got is the history *)
(* of all bytes its reads returned.                                        *)
(*                                                                         *)
(* An output stream has accepted data, permits cap bytes, and ends (closed *)
(* or failed) once it has accepted limit bytes; with flaky, a permitted    *)
(* write may fail.  handed is the history of all bytes passed to write.    *)
(***************************************************************************)
Bytes == {1, 2}

Contents == SeqsUpTo(Bytes, MaxLen)

Min(a, b) == IF a < b THEN a ELSE b

Drop(s, n) == SubSeq(s, n + 1, Len(s))

Take(s, n) == SubSeq(s, 1, n)

IsPrefix(s, t) == Len(s) <= Len(t) /\ s = Take(t, Len(s))

NoLimit == MaxLen + 1

InStream(content, e) ==
    [avail |-> <<>>, future |-> content, end |-> e, spur |-> FALSE, got |-> <<>>]

OutStream(limit, e, flaky) ==
    [data |-> <<>>, handed |-> <<>>, cap |-> 0, limit |-> limit, end |-> e,
     flaky |-> flaky]

InEnded(s) == s.avail = <<>> /\ s.future = <<>> /\ s.end # "open"

InReady(s) == s.avail # <<>> \/ InEnded(s) \/ s.spur

\* input-stream.read(n): the outcomes the host may produce
HostRead(s, n) ==
    IF s.avail # <<>> /\ n > 0
    THEN {[res |-> "data", chunk |-> Take(s.avail, m),
           next |-> [s EXCEPT !.avail = Drop(s.avail, m), !.spur = FALSE,
                              !.got = s.got \o Take(s.avail, m)]]
            : m \in 1..Min(n, Len(s.avail))}
    ELSE IF InEnded(s)
    THEN {[res |-> s.end, chunk |-> <<>>, next |-> [s EXCEPT !.spur = FALSE]]}
    ELSE {[res |-> "empty", chunk |-> <<>>, next |-> [s EXCEPT !.spur = FALSE]]}

OutEnded(s) == Len(s.data) >= s.limit

OutReady(s) == s.cap > 0 \/ OutEnded(s)

\* output-stream.check-write()
HostCheckWrite(s) ==
    IF OutEnded(s) THEN [res |-> s.end, cap |-> 0] ELSE [res |-> "ok", cap |-> s.cap]

\* output-stream.write(bytes), after check-write permitted Len(bytes)
HostWrite(s, bytes) ==
    {[res |-> "ok",
      next |-> [s EXCEPT !.data = s.data \o bytes, !.handed = s.handed \o bytes,
                         !.cap = s.cap - Len(bytes)]]}
    \cup
    {[res |-> e,
      next |-> [s EXCEPT !.handed = s.handed \o bytes, !.cap = 0,
                         !.limit = Len(s.data), !.end = e]]
       : e \in IF s.flaky THEN {"closed", "failed"} ELSE {}}

\* bytes arrive on the input stream
HostArrive ==
    /\ inS.future # <<>>
    /\ \E k \in 1..Len(inS.future) :
         inS' = [inS EXCEPT !.avail = inS.avail \o Take(inS.future, k),
                            !.future = Drop(inS.future, k)]
    /\ UNCHANGED <<rtVars, srvVars, libVars, bodyVars, cpVars, outS, rd, wr, wa>>

\* the input stream's pollable reports ready although nothing can be read
HostSpurious ==
    /\ ~InReady(inS)
    /\ inS' = [inS EXCEPT !.spur = TRUE]
    /\ UNCHANGED <<rtVars, srvVars, libVars, bodyVars, cpVars, outS, rd, wr, wa>>

\* the output stream permits more bytes
HostGrant ==
    /\ ~OutEnded(outS)
    /\ \E k \in (outS.cap + 1)..Min(MaxCap, outS.limit - Len(outS.data)) :
         outS' = [outS EXCEPT !.cap = k]
    /\ UNCHANGED <<rtVars, srvVars, libVars, bodyVars, cpVars, inS, rd, wr, wa>>

(***************************************************************************)
(* Results of the adapters' async fns: Ok(n) or Err(kind).                 *)
(***************************************************************************)
Ok(n) == [ok |-> TRUE, n |-> n, err |-> "none"]

Err(e) == [ok |-> FALSE, n |-> 0, err |-> e]

NoResult == [ok |-> FALSE, n |-> 0, err |-> "pending"]

\* StreamError::Closed -> ErrorKind::ConnectionReset on the write side,
\* StreamError::LastOperationFailed -> io::Error::other
WriteError(res) == IF res = "closed" THEN Err("ConnectionReset") ELSE Err("Other")

Filled(n) == [i \in 1..n |-> 0]

IdleRead == [pc |-> "idle", buf |-> <<>>, result |-> NoResult, host |-> "none",
             chunk |-> <<>>]

IdleWrite == [pc |-> "idle", buf |-> <<>>, result |-> NoResult, writes |-> <<>>]

IdleWriteAll == [pc |-> "idle", buf |-> <<>>, to_write |-> <<>>, result |-> NoResult,
                 rounds |-> 0]

(***************************************************************************)
(* AsyncInputStream::read, lines 51-74.                                    *)
(***************************************************************************)
\* entry: the caller passes a buffer; the first thing read does is to await
\* readiness
ReadFrame(buf) == [IdleRead EXCEPT !.pc = "await", !.buf = buf]

\* what read does with one host read, lines 57-73
ReadMatchEmptyIsEof(f, h) ==
    CASE h.res \in {"empty", "closed"} ->
           [f EXCEPT !.pc = "done", !.host = h.res, !.result = Ok(0)]
      [] h.res = "data" ->
           [f EXCEPT !.pc = "done", !.host = "data", !.chunk = h.chunk,
                     !.buf = h.chunk \o Drop(f.buf, Len(h.chunk)),
                     !.result = Ok(Len(h.chunk))]
      [] h.res = "failed" ->
           [f EXCEPT !.pc = "done", !.host = "failed", !.result = Err("Other")]

ReadMatch(f, h) ==
    CASE h.res = "empty" ->
           [f EXCEPT !.host = "empty"]
      [] h.res = "data" ->
           [f EXCEPT !.pc = "done", !.host = "data", !.chunk = h.chunk,
                     !.buf = h.chunk \o Drop(f.buf, Len(h.chunk)),
                     !.result = Ok(Len(h.chunk))]
      [] h.res = "closed" ->
           [f EXCEPT !.pc = "done", !.host = "closed", !.result = Ok(0)]
      [] h.res = "failed" ->
           [f EXCEPT !.pc = "done", !.host = "failed", !.result = Err("Other")]

\* one iteration of the loop: readiness has been awaited, the host is read
ReadPoll ==
    /\ rd.pc = "await"
    /\ InReady(inS)
    /\ \E h \in HostRead(inS, Len(rd.buf)) :
         /\ inS' = h.next
         /\ rd' = ReadMatch(rd, h)
    /\ UNCHANGED <<rtVars, srvVars, libVars, bodyVars, cpVars, outS, wr, wa>>

(***************************************************************************)
(* AsyncInputChunkStream and AsyncInputByteStream, lines 149-228.          *)
(***************************************************************************)
\* into_stream, line 101
CHUNK_SIZE == 8192

\* pc: idle (between two calls of next) | pending (poll_next returned
\* Pending) | poll (the task was woken) | taken (into_inner was called);
\* registered tells that the WaitFor of the stream holds the task's waker;
\* buffer is the cursor's rest, yielded the bytes yielded so far; last is
\* what the byte stream returned last, chunk_last what the chunk stream
\* returned last; inner is the Vec into_inner returned
IdleByteStream == [pc |-> "idle", registered |-> FALSE, buffer |-> <<>>,
                   yielded |-> <<>>, last |-> "nothing", chunk_last |-> "nothing",
                   inner |-> <<>>]

\* a chunk stream that hands an empty read on as an item
ChunkPollNextEmptyItem(s, chunk_size) ==
    IF ~InReady(s)
    THEN {[res |-> "pending", bytes |-> <<>>, next |-> s, registered |-> TRUE]}
    ELSE {[res |-> IF h.res \in {"data", "empty"} THEN "item"
                   ELSE IF h.res = "failed" THEN "error" ELSE "end",
           bytes |-> h.chunk, next |-> h.next, registered |-> FALSE]
            : h \in HostRead(s, chunk_size)}

\* AsyncInputChunkStream::poll_next, lines 165-177, with poll_ready, lines
\* 29-44: the WaitFor is Ready when the host reports the pollable ready and
\* is then taken out of its slot, the task's waker with it; otherwise it
\* keeps the waker and the poll is Pending
ChunkPollNext(s, chunk_size) ==
    IF ~InReady(s)
    THEN {[res |-> "pending", bytes |-> <<>>, next |-> s, registered |-> TRUE]}
    ELSE {[res |-> CASE h.res = "empty" -> "pending"
                     [] h.res = "data" -> "item"
                     [] h.res = "failed" -> "error"
                     [] h.res = "closed" -> "end",
           bytes |-> h.chunk, next |-> h.next, registered |-> FALSE]
            : h \in HostRead(s, chunk_size)}

\* AsyncInputByteStream::poll_next, lines 206-227
BytePollNext ==
    /\ bs.pc \in {"idle", "poll"}
    /\ IF bs.buffer # <<>>
       THEN /\ bs' = [bs EXCEPT !.pc = "idle", !.last = "byte",
                                !.yielded = Append(bs.yielded, Head(bs.buffer)),
                                !.buffer = Tail(bs.buffer)]
            /\ inS' = inS
       ELSE \E c \in ChunkPollNext(inS, CHUNK_SIZE) :
              /\ inS' = c.next
              /\ bs' = CASE c.res = "pending" ->
                              [bs EXCEPT !.pc = "pending", !.last = "pending",
                                         !.chunk_last = "pending",
                                         !.registered = c.registered]
                         [] c.res = "item" /\ c.bytes # <<>> ->
                              [bs EXCEPT !.pc = "idle", !.last = "byte",
                                         !.chunk_last = "item",
                                         !.registered = FALSE,
                                         !.yielded = Append(bs.yielded, Head(c.bytes)),
                                         !.buffer = Tail(c.bytes)]
                         [] c.res = "item" /\ c.bytes = <<>> ->
                              [bs EXCEPT !.pc = "idle", !.last = "end",
                                         !.chunk_last = "item", !.registered = FALSE]
                         [] c.res = "error" ->
                              [bs EXCEPT !.pc = "idle", !.last = "error",
                                         !.chunk_last = "error", !.registered = FALSE]
                         [] c.res = "end" ->
                              [bs EXCEPT !.pc = "idle", !.last = "end",
                                         !.chunk_last = "end", !.registered = FALSE]
    /\ UNCHANGED <<rtVars, srvVars, cpVars, bodyVars, cl, tcp, tm, outS, rd, wr, wa, sh>>

\* the reactor wakes the task whose waker the WaitFor holds once the host
\* reports the pollable ready
ByteWake ==
    /\ bs.pc = "pending"
    /\ bs.registered
    /\ InReady(inS)
    /\ bs' = [bs EXCEPT !.pc = "poll"]
    /\ UNCHANGED <<rtVars, srvVars, cpVars, bodyVars, cl, tcp, tm, ioVars, sh>>

\* AsyncInputByteStream::into_inner, lines 194-201, between two polls or
\* after the future of next was dropped
ByteIntoInner ==
    /\ bs.pc \in {"idle", "pending", "poll"}
    /\ bs' = [bs EXCEPT !.pc = "taken", !.inner = bs.buffer, !.buffer = <<>>,
                        !.registered = FALSE]
    /\ UNCHANGED <<rtVars, srvVars, cpVars, bodyVars, cl, tcp, tm, ioVars, sh>>

(***************************************************************************)
(* AsyncInputStream::read called by tasks that share the stream by         *)
(* reference (read takes &self, line 51).                                  *)
(***************************************************************************)
NumReaders == 2

\* readers are the frames of the calls of read; wait_for is the slot of
\* line 14: None, or the task whose waker the stored WaitFor was polled
\* with last; clash tells that the stored WaitFor was polled with the waker
\* of another task than the one before
IdleShared == [readers |-> [t \in 1..NumReaders |-> IdleRead], wait_for |-> None,
               clash |-> FALSE]

\* a task calls read on the shared stream, line 51
SharedRead(t, len) ==
    /\ sh.readers[t].pc = "idle"
    /\ sh' = [sh EXCEPT !.readers[t] = ReadFrame(Filled(len))]
    /\ UNCHANGED <<rtVars, srvVars, cpVars, bodyVars, cl, tcp, tm, ioVars, bs>>

\* the task is polled: poll_ready (lines 29-44) polls the stored WaitFor with
\* the task's waker, creating it if the slot is empty; when it is Ready the
\* slot is emptied and the host is read (lines 57-69)
SharedPoll(t) ==
    /\ sh.readers[t].pc = "await"
    /\ LET other == sh.wait_for # None /\ sh.wait_for # Some(t) IN
       IF InReady(inS)
       THEN \E h \in HostRead(inS, Len(sh.readers[t].buf)) :
              /\ inS' = h.next
              /\ sh' = [sh EXCEPT !.readers[t] = ReadMatch(@, h),
                                  !.wait_for = None,
                                  !.clash = sh.clash \/ other]
       ELSE /\ sh' = [sh EXCEPT !.wait_for = Some(t),
                                !.clash = sh.clash \/ other]
            /\ inS' = inS
    /\ UNCHANGED <<rtVars, srvVars, cpVars, bodyVars, cl, tcp, tm, outS, rd, wr, wa, bs>>

\* the caller takes the result of its read and may read again
SharedReturn(t) ==
    /\ sh.readers[t].pc = "done"
    /\ sh' = [sh EXCEPT !.readers[t] = IdleRead]
    /\ UNCHANGED <<rtVars, srvVars, cpVars, bodyVars, cl, tcp, tm, ioVars, bs>>

(***************************************************************************)
(* AsyncOutputStream::write, lines 265-294.                                *)
(***************************************************************************)
WriteFrame(buf) == [IdleWrite EXCEPT !.pc = "check", !.buf = buf]

\* line 275
WritableUncapped(some, buf) == Len(buf)

Writable(some, buf) == Min(some, Len(buf))

\* one iteration of the loop: check_write, then wait or write
WriteCheck ==
    /\ wr.pc = "check"
    /\ LET c == HostCheckWrite(outS) IN
       IF c.res # "ok"
       THEN /\ wr' = [wr EXCEPT !.pc = "done", !.result = WriteError(c.res)]
            /\ outS' = outS
       ELSE IF c.cap = 0
       THEN /\ wr' = [wr EXCEPT !.pc = "await"]
            /\ outS' = outS
       ELSE LET writable == Writable(c.cap, wr.buf)
                bytes == Take(wr.buf, writable)
            IN  \E h \in HostWrite(outS, bytes) :
                  /\ outS' = h.next
                  /\ wr' = [wr EXCEPT
                       !.pc = "done",
                       !.writes = Append(wr.writes, [cap |-> c.cap, bytes |-> bytes]),
                       !.result = IF h.res = "ok" THEN Ok(writable)
                                  ELSE WriteError(h.res)]
    /\ UNCHANGED <<rtVars, srvVars, libVars, bodyVars, cpVars, inS, rd, wa>>

\* self.ready().await, lines 249-256 and 270-272
WriteReady ==
    /\ wr.pc = "await"
    /\ OutReady(outS)
    /\ wr' = [wr EXCEPT !.pc = "check"]
    /\ UNCHANGED <<rtVars, srvVars, libVars, bodyVars, cpVars, inS, outS, rd, wa>>

(***************************************************************************)
(* AsyncOutputStream::write_all, lines 298-307.                            *)
(***************************************************************************)
WriteAllFrame(buf) ==
    [IdleWriteAll EXCEPT !.pc = "write", !.buf = buf, !.to_write = buf]

\* what write_all does with the result of a write, lines 301-305
WriteAllMatchOnce(f, res) ==
    IF ~res.ok THEN [f EXCEPT !.pc = "done", !.result = res]
    ELSE [f EXCEPT !.pc = "done", !.to_write = Drop(f.to_write, res.n),
                   !.result = Ok(0), !.rounds = f.rounds + 1]

WriteAllMatch(f, res) ==
    IF ~res.ok THEN [f EXCEPT !.pc = "done", !.result = res]
    ELSE LET rest == Drop(f.to_write, res.n) IN
         IF rest = <<>>
         THEN [f EXCEPT !.pc = "done", !.to_write = rest, !.result = Ok(0),
                        !.rounds = f.rounds + 1]
         ELSE [f EXCEPT !.to_write = rest, !.rounds = f.rounds + 1]

WriteAllNext ==
    /\ wa.pc = "write"
    /\ wr.pc = "done"
    /\ wa' = WriteAllMatch(wa, wr.result)
    /\ wr' = IF wa'.pc = "done" THEN wr ELSE WriteFrame(wa'.to_write)
    /\ UNCHANGED <<rtVars, srvVars, libVars, bodyVars, cpVars, inS, outS, rd>>

(***************************************************************************)
(* Top-level calls on the stream adapters.                                 *)
(***************************************************************************)
ReadCall(len) ==
    /\ rd.pc \in {"idle", "done"}
    /\ rd' = ReadFrame(Filled(len))
    /\ UNCHANGED <<rtVars, srvVars, libVars, bodyVars, cpVars, inS, outS, wr, wa>>

WriteCall(buf) ==
    /\ wr.pc = "idle"
    /\ wa.pc = "idle"
    /\ wr' = WriteFrame(buf)
    /\ UNCHANGED <<rtVars, srvVars, libVars, bodyVars, cpVars, inS, outS, rd, wa>>

WriteAllCall(buf) ==
    /\ wr.pc = "idle"
    /\ wa.pc = "idle"
    /\ wa' = WriteAllFrame(buf)
    /\ wr' = WriteFrame(buf)
    /\ UNCHANGED <<rtVars, srvVars, libVars, bodyVars, cpVars, inS, outS, rd>>

(***************************************************************************)
(* AsyncInputStream::copy_to, lines 79-92, over the host's splice.         *)
(***************************************************************************)
\* spliced is the sum of the counts the host's splices returned, last the
\* result of the latest splice, awaited what the current iteration has
\* awaited, eager whether a splice was ever issued without both awaits
IdleCopyTo == [pc |-> "idle", written |-> 0, result |-> NoResult, spliced |-> 0,
               last |-> "none", awaited |-> {}, eager |-> FALSE]

\* output-stream.splice(src, len) with len = u64::MAX: check-write, then a
\* read of at most the permitted length, then a write of what was read; the
\* first error ends the splice.
HostSplice(i, o) ==
    LET c == HostCheckWrite(o) IN
    IF c.res # "ok" THEN {[res |-> c.res, n |-> 0, in |-> i, out |-> o]}
    ELSE IF c.cap = 0 THEN {[res |-> "ok", n |-> 0, in |-> i, out |-> o]}
    ELSE UNION {
      IF h.res = "data"
      THEN {[res |-> w.res, n |-> IF w.res = "ok" THEN Len(h.chunk) ELSE 0,
             in |-> h.next, out |-> w.next] : w \in HostWrite(o, h.chunk)}
      ELSE {[res |-> IF h.res = "empty" THEN "ok" ELSE h.res, n |-> 0,
             in |-> h.next, out |-> o]}
      : h \in HostRead(i, c.cap)}

\* lines 84-90: what copy_to does with the result of one splice
SpliceMatch(f, h) ==
    CASE h.res = "ok" -> [f EXCEPT !.pc = "ready_in", !.written = f.written + h.n]
      [] h.res = "closed" -> [f EXCEPT !.pc = "done", !.result = Ok(f.written)]
      [] h.res = "failed" -> [f EXCEPT !.pc = "done", !.result = Err("Other")]

\* line 82: self.ready().await
CopyReadyIn ==
    /\ cp.pc = "ready_in"
    /\ InReady(inS)
    /\ cp' = [cp EXCEPT !.pc = "ready_out", !.awaited = {"in"}]
    /\ UNCHANGED <<rtVars, srvVars, libVars, bodyVars, ioVars, fb>>

\* line 83: writer.ready().await
CopyReadyOut ==
    /\ cp.pc = "ready_out"
    /\ OutReady(outS)
    /\ cp' = [cp EXCEPT !.pc = "splice", !.awaited = cp.awaited \cup {"out"}]
    /\ UNCHANGED <<rtVars, srvVars, libVars, bodyVars, ioVars, fb>>

\* lines 84-90
CopySplice ==
    /\ cp.pc = "splice"
    /\ \E h \in HostSplice(inS, outS) :
         /\ inS' = h.in
         /\ outS' = h.out
         /\ cp' = [SpliceMatch(cp, h) EXCEPT
                     !.spliced = cp.spliced + h.n,
                     !.last = h.res,
                     !.eager = cp.eager \/ cp.awaited # {"in", "out"}]
    /\ UNCHANGED <<rtVars, srvVars, libVars, bodyVars, rd, wr, wa, fb>>

(***************************************************************************)
(* io::copy, src/io/copy.rs.  The fast path hands the whole copy to        *)
(* copy_to; the fallback reads into a 1024-byte buffer and writes it out.  *)
(* ref remembers how an earlier copy over the same streams ended.          *)
(***************************************************************************)
CopyBufLen == 1024

IdleCopy == [pc |-> "idle", result |-> NoResult, ref |-> None]

\* lines 11-16: both ends are stream adapters
CopyFast ==
    /\ cp.pc = "idle"
    /\ fb.pc = "idle"
    /\ rd.pc = "idle" /\ wr.pc = "idle" /\ wa.pc = "idle"
    /\ cp' = [IdleCopyTo EXCEPT !.pc = "ready_in"]
    /\ UNCHANGED <<rtVars, srvVars, libVars, bodyVars, ioVars, fb>>

\* lines 19-21: the same streams, in the state they had before the fast
\* copy, copied by the fallback loop
CopySlow ==
    /\ cp.pc = "done"
    /\ fb.pc = "idle"
    /\ fb' = [IdleCopy EXCEPT
                !.pc = "read",
                !.ref = Some([ok |-> cp.result.ok, data |-> outS.data])]
    /\ inS' = InStream(inS.got \o inS.avail \o inS.future, inS.end)
    /\ outS' = OutStream(outS.limit, outS.end, outS.flaky)
    /\ rd' = ReadFrame(Filled(CopyBufLen))
    /\ UNCHANGED <<rtVars, srvVars, libVars, bodyVars, wr, wa, cp>>

\* lines 21-25: after reader.read(&mut buf).await?
CopyAfterRead ==
    /\ fb.pc = "read"
    /\ rd.pc = "done"
    /\ IF ~rd.result.ok
       THEN /\ fb' = [fb EXCEPT !.pc = "done", !.result = rd.result]
            /\ UNCHANGED <<wr, wa>>
       ELSE IF rd.result.n = 0
       THEN /\ fb' = [fb EXCEPT !.pc = "done", !.result = Ok(0)]
            /\ UNCHANGED <<wr, wa>>
       ELSE /\ fb' = [fb EXCEPT !.pc = "write"]
            /\ wa' = WriteAllFrame(Take(rd.buf, rd.result.n))
            /\ wr' = WriteFrame(Take(rd.buf, rd.result.n))
    /\ UNCHANGED <<rtVars, srvVars, libVars, bodyVars, inS, outS, rd, cp>>

\* lines 25 and 21: after writer.write_all(..).await?, read again
CopyAfterWrite ==
    /\ fb.pc = "write"
    /\ wa.pc = "done"
    /\ IF ~wa.result.ok
       THEN /\ fb' = [fb EXCEPT !.pc = "done", !.result = wa.result]
            /\ rd' = rd
       ELSE /\ fb' = [fb EXCEPT !.pc = "read"]
            /\ rd' = ReadFrame(rd.buf)
    /\ UNCHANGED <<rtVars, srvVars, libVars, bodyVars, inS, outS, wr, wa, cp>>

(***************************************************************************)
(* The HTTP body engine, src/http/body.rs.  The host connects an outgoing  *)
(* body to the peer's incoming body: bytes the outgoing stream accepted    *)
(* become readable on the incoming stream, in order; finish ends the       *)
(* incoming stream with Closed and resolves the trailers; an outgoing body *)
(* dropped unfinished ends it with a failure.                              *)
(***************************************************************************)
MAX_FRAME_SIZE == 65536

(***************************************************************************)
(* Header maps, src/http/fields.rs.  A HeaderMap is the sequence of its    *)
(* (name, value) entries in iteration order: names in the order of their   *)
(* first insertion, the values of one name together; a value is the       *)
(* sequence of its characters.  The host's Fields are the sequence of the  *)
(* entries appended to them.  The host refuses to append a forbidden name. *)
(***************************************************************************)
MaxHeaders == 1

HeaderNames == {"k", "connection"}

Forbidden == {"connection"}

\* HeaderMap::append
RECURSIVE HeaderAppend(_, _)
HeaderAppend(m, e) ==
    IF m = <<>> THEN <<e>>
    ELSE IF m[Len(m)][1] = e[1] \/ \A i \in 1..Len(m) : m[i][1] # e[1]
    THEN Append(m, e)
    ELSE Append(HeaderAppend(SubSeq(m, 1, Len(m) - 1), e), m[Len(m)])

\* header_map_from_wasi, lines 6-16: every entry of the Fields is appended
RECURSIVE header_map_from_wasi(_)
header_map_from_wasi(fields) ==
    IF fields = <<>> THEN <<>>
    ELSE HeaderAppend(header_map_from_wasi(SubSeq(fields, 1, Len(fields) - 1)),
                      fields[Len(fields)])

\* header_map_to_wasi, lines 18-27: Err as soon as the host rejects an entry
header_map_to_wasi(m) ==
    IF \E i \in 1..Len(m) : m[i][1] \in Forbidden
    THEN [ok |-> FALSE, fields |-> <<>>]
    ELSE [ok |-> TRUE, fields |-> m]

HeaderMaps ==
    {header_map_from_wasi(f) :
       f \in SeqsUpTo({<<n, <<"v">>>> : n \in HeaderNames}, MaxHeaders)}

\* BodyInner::Complete { data, trailers }
Complete(data, trailers) == [kind |-> "Complete", data |-> data, trailers |-> trailers]

\* impl From<Bytes> for Body, lines 289-296
BodyFrom(data) == Complete(data, None)

\* Body::from_incoming(body, size_hint), lines 219-221; the hint is None for
\* BodyHint::Unknown and Some(n) for BodyHint::ContentLength(n)
FromIncoming(hint) ==
    [kind |-> "Incoming", data |-> <<>>, trailers |-> None, hint |-> hint]

\* BodyInner::Incoming(..)
Incoming == FromIncoming(None)

\* Body::content_length, lines 179-185; an http_body without an exact size
\* hint in the Boxed variant
content_length(inner) ==
    CASE inner.kind = "Boxed" -> None
      [] inner.kind = "Complete" -> Some(Len(inner.data))
      [] inner.kind = "Incoming" -> inner.hint

\* what an http_body::Body yields: Frame::data(bytes), Frame::trailers(map),
\* or an error
Frame(kind, bytes, m) == [kind |-> kind, data |-> bytes, map |-> m]

\* BodyInner::Boxed(..), lines 270-277: the frames the http_body will yield
Boxed(frames) ==
    [kind |-> "Boxed", data |-> <<>>, trailers |-> None, frames |-> frames]

\* next is the frame the Boxed arm polls next, trailers its local variable;
\* in_trailers is what the host resolves the trailers of a forwarded
\* incoming body to, calls the host calls of Incoming::send in their order
IdleSend == [pc |-> "idle", body |-> BodyFrom(<<>>), result |-> NoResult,
             next |-> 1, trailers |-> None,
             in_trailers |-> [ok |-> TRUE, fields |-> None], calls |-> <<>>]

\* state is the IncomingBodyState (None once the Option is empty); bufs and
\* trailers are what collect() has gathered, frames the data frames so far;
\* last is what poll_frame yielded last, ntrailers the trailer frames it has
\* yielded; cached tells that contents() answered from the in-memory variant;
\* streams counts the calls of stream() on the host's incoming body; spins
\* counts the turns of the read loop of the current BodyState::poll_frame
\* that found the pollable ready after an empty read; rel are the releases
\* of the decoder's host resources in their order
IdleContents == [pc |-> "idle", inner |-> Incoming, state |-> "Body", bufs |-> <<>>,
                 trailers |-> None, frames |-> 0, result |-> NoResult,
                 last |-> "nothing", ntrailers |-> 0, cached |-> FALSE,
                 streams |-> 0, spins |-> 0, rel |-> <<>>]

\* out: open | finished | failed (finish refused) | dropped (never finished);
\* finishes counts the calls of finish; trailers are the Fields given to it;
\* ft, the peer's FutureTrailers: pending | ready | taken
IdleHostBody == [out |-> "open", trailers |-> None, ft |-> "pending", finishes |-> 0]

\* the release of an AsyncInputStream: its fields in the order of their
\* declaration, io/streams.rs lines 12-18
DropInput ==
    <<"drop in_stream.wait_for", "drop in_stream.subscription", "drop in_stream.stream">>

\* an AsyncOutputStream that releases its stream before the subscription
DropOutputStreamFirst ==
    <<"drop out_stream.stream", "drop out_stream.subscription">>

\* the release of an AsyncOutputStream, io/streams.rs lines 233-238
DropOutput ==
    <<"drop out_stream.subscription", "drop out_stream.stream">>

\* what goes out of scope when send returns early or its future is dropped:
\* the live locals in the reverse order of their declaration, then the
\* parameter outgoing_body
SendUnwind(f) ==
    CASE f.pc = "copy" ->
           DropOutput \o DropInput \o <<"drop in_body", "drop outgoing_body">>
      [] f.pc = "in_trailers" ->
           <<"drop future_in_trailers", "drop outgoing_body">>
      [] OTHER ->
           DropOutput \o <<"drop outgoing_body">>

\* WasiOutgoingBody::finish(outgoing_body, trailers) and map_err(..)?, which
\* the host may refuse; the Complete and Boxed arms drop out_stream just
\* before (lines 98 and 114)
SendFinish(trailers) ==
    \E accepted \in BOOLEAN :
      /\ hb' = [hb EXCEPT !.finishes = hb.finishes + 1,
                          !.out = IF accepted THEN "finished" ELSE "failed",
                          !.trailers = IF accepted THEN trailers ELSE None]
      /\ sd' = [sd EXCEPT !.pc = "done",
                          !.result = IF accepted THEN Ok(0) ELSE Err("Other"),
                          !.calls = sd.calls
                                      \o (IF sd.body.kind = "Incoming" THEN <<>> ELSE DropOutput)
                                      \o <<"out.finish">>]

\* an early return that finishes the outgoing body all the same
SendFailFinishes(err) ==
    /\ sd' = [sd EXCEPT !.pc = "done", !.result = err]
    /\ hb' = [hb EXCEPT !.out = "finished", !.finishes = hb.finishes + 1]

\* an early return with an error: outgoing_body goes out of scope unfinished
SendFail(err) ==
    /\ sd' = [sd EXCEPT !.pc = "done", !.result = err,
                        !.calls = sd.calls \o SendUnwind(sd)]
    /\ hb' = [hb EXCEPT !.out = "dropped"]

\* Body::send, Complete arm, lines 107-112
SendCall(body) ==
    /\ sd.pc = "idle"
    /\ sd' = [sd EXCEPT !.pc = "write_all", !.body = body, !.calls = <<"out.write">>]
    /\ wa' = WriteAllFrame(body.data)
    /\ wr' = WriteFrame(body.data)
    /\ UNCHANGED <<rtVars, srvVars, libVars, cpVars, inS, outS, rd, ib, hb>>

\* lines 113-120: after write_all, the trailers are converted and the body
\* is finished.  On Err the outgoing body is dropped unfinished.
SendAfterWrite ==
    /\ sd.pc = "write_all"
    /\ wa.pc = "done"
    /\ IF ~wa.result.ok
       THEN SendFail(wa.result)
       ELSE IF \E t \in sd.body.trailers : ~header_map_to_wasi(t).ok
       THEN SendFail(Err("Other"))
       ELSE SendFinish({header_map_to_wasi(t).fields : t \in sd.body.trailers})
    /\ UNCHANGED <<rtVars, srvVars, libVars, cpVars, ioVars, ib>>

\* Body::send, Boxed arm, lines 76-83
SendBoxed(body) ==
    /\ sd.pc = "idle"
    /\ sd' = [sd EXCEPT !.pc = "frames", !.body = body, !.calls = <<"out.write">>]
    /\ UNCHANGED <<rtVars, srvVars, libVars, cpVars, ioVars, ib, hb>>

\* a Boxed arm that keeps the first trailers it sees
SendFrameKeepsFirst ==
    /\ sd.pc = "frames"
    /\ IF sd.next > Len(sd.body.frames)
       THEN /\ SendFinish(sd.trailers)
            /\ UNCHANGED <<wr, wa>>
       ELSE LET frame == sd.body.frames[sd.next] IN
            CASE frame.kind = "data" ->
                   /\ sd' = [sd EXCEPT !.pc = "frame_write"]
                   /\ wa' = WriteAllFrame(frame.data)
                   /\ wr' = WriteFrame(frame.data)
                   /\ hb' = hb
              [] frame.kind = "trailers" ->
                   /\ IF header_map_to_wasi(frame.map).ok
                      THEN /\ sd' = [sd EXCEPT
                                       !.next = sd.next + 1,
                                       !.trailers =
                                          IF sd.trailers # None THEN sd.trailers
                                          ELSE Some(header_map_to_wasi(frame.map).fields)]
                           /\ hb' = hb
                      ELSE SendFail(Err("Other"))
                   /\ UNCHANGED <<wr, wa>>
              [] frame.kind = "error" ->
                   /\ SendFail(Err("Other"))
                   /\ UNCHANGED <<wr, wa>>
    /\ UNCHANGED <<rtVars, srvVars, libVars, cpVars, inS, outS, rd, ib>>

\* lines 84-104: one poll_frame of the source and the match on it
SendFrame ==
    /\ sd.pc = "frames"
    /\ IF sd.next > Len(sd.body.frames)
       THEN /\ SendFinish(sd.trailers)
            /\ UNCHANGED <<wr, wa>>
       ELSE LET frame == sd.body.frames[sd.next] IN
            CASE frame.kind = "data" ->
                   /\ sd' = [sd EXCEPT !.pc = "frame_write"]
                   /\ wa' = WriteAllFrame(frame.data)
                   /\ wr' = WriteFrame(frame.data)
                   /\ hb' = hb
              [] frame.kind = "trailers" ->
                   /\ IF header_map_to_wasi(frame.map).ok
                      THEN /\ sd' = [sd EXCEPT
                                       !.next = sd.next + 1,
                                       !.trailers = Some(header_map_to_wasi(frame.map).fields)]
                           /\ hb' = hb
                      ELSE SendFail(Err("Other"))
                   /\ UNCHANGED <<wr, wa>>
              [] frame.kind = "error" ->
                   /\ SendFail(Err("Other"))
                   /\ UNCHANGED <<wr, wa>>
    /\ UNCHANGED <<rtVars, srvVars, libVars, cpVars, inS, outS, rd, ib>>

\* line 87: out_stream.write_all(data).await?
SendAfterFrameWrite ==
    /\ sd.pc = "frame_write"
    /\ wa.pc = "done"
    /\ IF ~wa.result.ok
       THEN SendFail(wa.result)
       ELSE /\ sd' = [sd EXCEPT !.pc = "frames", !.next = sd.next + 1]
            /\ hb' = hb
    /\ UNCHANGED <<rtVars, srvVars, libVars, cpVars, ioVars, ib>>

\* the future of send is dropped before it completes: the stream and the
\* outgoing body it owns are dropped with it
SendDrop ==
    /\ sd.pc \in {"write_all", "frames", "frame_write", "copy", "in_trailers"}
    /\ sd' = [sd EXCEPT !.pc = "dropped", !.calls = sd.calls \o SendUnwind(sd)]
    /\ hb' = [hb EXCEPT !.out = "dropped"]
    /\ wr' = IdleWrite
    /\ wa' = IdleWriteAll
    /\ cp' = IdleCopyTo
    /\ UNCHANGED <<rtVars, srvVars, libVars, inS, outS, rd, ib, fb>>

\* Incoming::send, lines 336-347: the incoming body's stream is copied to
\* the outgoing body's stream
SendIncoming(body) ==
    /\ sd.pc = "idle"
    /\ sd' = [sd EXCEPT !.pc = "copy", !.body = body,
                        !.calls = <<"in.stream", "out.write">>]
    /\ cp' = [IdleCopyTo EXCEPT !.pc = "ready_in"]
    /\ UNCHANGED <<rtVars, srvVars, libVars, ioVars, fb, ib, hb>>

\* lines 345-353: after copy_to both streams are dropped, the incoming body
\* is finished and its trailers are awaited; the host resolves them to an
\* error, to none, or to some Fields
SendAfterCopy ==
    /\ sd.pc = "copy"
    /\ cp.pc = "done"
    /\ IF ~cp.result.ok
       THEN SendFail(cp.result)
       ELSE /\ \E t \in {[ok |-> FALSE, fields |-> None], [ok |-> TRUE, fields |-> None]}
                        \cup {[ok |-> TRUE, fields |-> Some(m)] : m \in HeaderMaps} :
                 sd' = [sd EXCEPT !.pc = "in_trailers",
                                  !.in_trailers = t,
                                  !.calls = sd.calls \o DropInput \o DropOutput
                                                      \o <<"in.finish">>]
            /\ hb' = hb
    /\ UNCHANGED <<rtVars, srvVars, libVars, cpVars, ioVars, ib>>

\* lines 354-361: the trailers are ready; an error is returned, anything
\* else finishes the outgoing body
SendAfterTrailers ==
    /\ sd.pc = "in_trailers"
    /\ IF ~sd.in_trailers.ok
       THEN SendFail(Err("Other"))
       ELSE SendFinish(sd.in_trailers.fields)
    /\ UNCHANGED <<rtVars, srvVars, libVars, cpVars, ioVars, ib>>

\* the turns of the decoder's read loop a single call is followed through
MaxSpins == 2

\* BodyState::poll_frame on one host read, lines 511-546, as seen through
\* IncomingBody::poll_frame's Body arm (lines 435-452) by collect()
BodyStatePollEmptyEnds(f, h, ready) ==
    CASE h.res = "data" ->
           [f EXCEPT !.bufs = f.bufs \o h.chunk, !.frames = f.frames + 1,
                     !.last = "data"]
      [] h.res \in {"closed", "empty"} ->
           [f EXCEPT !.state = "Trailers"]
      [] h.res = "failed" ->
           [f EXCEPT !.pc = "done", !.result = Err("Other"), !.last = "error"]

\* the release of an IncomingBodyState::Body, lines 476-483: read_state
\* with its fields in the order of lines 498-502, then the body if it was
\* not taken
DropBodyState(taken) ==
    <<"drop read_state.wait", "drop read_state.subscription", "drop read_state.stream">>
      \o (IF taken THEN <<>> ELSE <<"drop in_body">>)

\* at the end of the stream lines 446-451 take the body out of the state,
\* drop the state and finish the body; after an error collect() returns and
\* the decoder is dropped whole
BodyStatePoll(f, h, ready) ==
    CASE h.res = "data" ->
           [f EXCEPT !.bufs = f.bufs \o h.chunk, !.frames = f.frames + 1,
                     !.last = "data"]
      [] h.res = "closed" ->
           [f EXCEPT !.state = "Trailers",
                     !.rel = f.rel \o DropBodyState(TRUE) \o <<"in.finish">>]
      [] h.res = "failed" ->
           [f EXCEPT !.pc = "done", !.result = Err("Other"), !.last = "error",
                     !.rel = f.rel \o DropBodyState(FALSE)]
      [] h.res = "empty" ->
           IF ready THEN f ELSE [f EXCEPT !.pc = "wait"]

\* a contents() that collects again whatever the variant
ContentsCallRecollects ==
    /\ ib.pc \in {"idle", "done", "dropped"}
    /\ ib' = [ib EXCEPT !.pc = "poll", !.inner = Complete(<<>>, None),
                        !.result = NoResult]
    /\ UNCHANGED <<rtVars, srvVars, libVars, cpVars, ioVars, sd, hb>>

\* TrailersState::poll_frame, lines 570-608, as seen through
\* IncomingBody::poll_frame's Trailers arm (lines 454-460) by collect()
TrailersStatePollDropsTrailers(f, h) ==
    CASE h.ft = "pending" -> [f EXCEPT !.pc = "wait"]
      [] h.ft = "ready" ->
           [f EXCEPT !.state = "None", !.last = "none"]
      [] h.ft = "taken" ->
           [f EXCEPT !.pc = "panicked"]

TrailersStatePollKeepsState(f, h) ==
    CASE h.ft = "pending" -> [f EXCEPT !.pc = "wait"]
      [] h.ft = "ready" /\ h.trailers # None ->
           [f EXCEPT !.trailers = {header_map_from_wasi(t) : t \in h.trailers},
                     !.last = "trailers", !.ntrailers = f.ntrailers + 1]
      [] h.ft = "ready" /\ h.trailers = None ->
           [f EXCEPT !.state = "None", !.last = "none"]
      [] h.ft = "taken" ->
           [f EXCEPT !.pc = "panicked"]

TrailersStatePoll(f, h) ==
    CASE h.ft = "pending" -> [f EXCEPT !.pc = "wait"]
      [] h.ft = "ready" /\ h.trailers # None ->
           [f EXCEPT !.state = "None",
                     !.trailers = {header_map_from_wasi(t) : t \in h.trailers},
                     !.last = "trailers", !.ntrailers = f.ntrailers + 1]
      [] h.ft = "ready" /\ h.trailers = None ->
           [f EXCEPT !.state = "None", !.last = "none"]
      [] h.ft = "taken" ->
           [f EXCEPT !.pc = "panicked"]

\* a contents() that leaves the incoming variant in place while it collects
ContentsCallKeepsIncoming ==
    /\ ib.pc \in {"idle", "done", "dropped"}
    /\ ib' = IF ib.inner.kind = "Complete"
             THEN [ib EXCEPT !.pc = "done", !.result = Ok(Len(ib.inner.data)),
                             !.cached = TRUE]
             ELSE [ib EXCEPT !.pc = "poll", !.result = NoResult,
                             !.streams = ib.streams + 1]
    /\ UNCHANGED <<rtVars, srvVars, libVars, cpVars, ioVars, sd, hb>>

\* Body::contents, lines 146-172: the in-memory variant answers at once; any
\* other is swapped for an empty in-memory body and collected through
\* into_boxed_body, where IncomingBody::new (lines 406-422) takes the stream
\* of the incoming body and panics if it was taken before
ContentsCall ==
    /\ ib.pc \in {"idle", "done", "dropped"}
    /\ ib' = IF ib.inner.kind = "Complete"
             THEN [ib EXCEPT !.pc = "done", !.result = Ok(Len(ib.inner.data)),
                             !.cached = TRUE]
             ELSE [ib EXCEPT !.pc = IF ib.streams = 0 THEN "poll" ELSE "panicked",
                             !.inner = Complete(<<>>, None),
                             !.result = NoResult,
                             !.streams = ib.streams + 1]
    /\ UNCHANGED <<rtVars, srvVars, libVars, cpVars, ioVars, sd, hb>>

\* the operations that take the Body by value, after which it is gone:
\* into_boxed_body (lines 129-141) and the entry of send (lines 73-75 and
\* 336-339); for the incoming variant either takes the stream of the
\* incoming body, and panics if it was taken before
BodyInto ==
    /\ ib.pc \in {"idle", "done", "dropped"}
    /\ ib' = IF ib.inner.kind = "Incoming"
             THEN [ib EXCEPT !.pc = IF ib.streams = 0 THEN "moved" ELSE "panicked",
                             !.streams = ib.streams + 1]
             ELSE [ib EXCEPT !.pc = "moved"]
    /\ UNCHANGED <<rtVars, srvVars, libVars, cpVars, ioVars, sd, hb>>

\* one poll_frame by collect(), lines 427-467; at the end of the frames
\* lines 161-170 store what was collected.  Between an empty read and the
\* poll of the WaitFor (lines 522-532) the host may report the pollable
\* ready though nothing has arrived.
PollFrame ==
    /\ ib.pc = "poll"
    /\ CASE ib.state = "Body" ->
              /\ \E h \in HostRead(inS, MAX_FRAME_SIZE) :
                 \E s \in {h.next} \cup
                           (IF h.res = "empty" /\ ib.spins < MaxSpins
                            THEN {[h.next EXCEPT !.spur = TRUE]} ELSE {}) :
                   /\ inS' = s
                   /\ ib' = [BodyStatePoll(ib, h, InReady(s)) EXCEPT
                               !.spins = IF h.res = "empty" /\ InReady(s)
                                         THEN ib.spins + 1 ELSE 0]
              /\ hb' = hb
         [] ib.state = "Trailers" ->
              /\ ib' = TrailersStatePoll(ib, hb)
              /\ hb' = IF hb.ft = "ready" THEN [hb EXCEPT !.ft = "taken"] ELSE hb
              /\ inS' = inS
         [] ib.state = "None" ->
              /\ ib' = [ib EXCEPT !.pc = "done",
                                  !.inner = Complete(ib.bufs, ib.trailers),
                                  !.result = Ok(Len(ib.bufs)),
                                  !.last = "none"]
              /\ UNCHANGED <<inS, hb>>
    /\ UNCHANGED <<rtVars, srvVars, libVars, cpVars, outS, rd, wr, wa, sd>>

\* the future of contents() is dropped before it completes, and the decoder
\* with it; the body keeps what line 150-154 swapped in
ContentsDrop ==
    /\ ib.pc \in {"poll", "wait"}
    /\ ib' = [ib EXCEPT !.pc = "dropped",
                        !.rel = IF ib.state = "Body"
                                THEN ib.rel \o DropBodyState(FALSE) ELSE ib.rel]
    /\ UNCHANGED <<rtVars, srvVars, libVars, cpVars, ioVars, sd, hb>>

\* the pollable the decoder waits for is ready: the task is polled again
BodyWake ==
    /\ ib.pc = "wait"
    /\ \/ ib.state = "Body" /\ InReady(inS)
       \/ ib.state = "Trailers" /\ hb.ft # "pending"
    /\ ib' = [ib EXCEPT !.pc = "poll"]
    /\ UNCHANGED <<rtVars, srvVars, libVars, cpVars, ioVars, sd, hb>>

\* host: bytes accepted by the outgoing stream reach the incoming stream
HostTransfer ==
    /\ inS.end = "open"
    /\ LET sent == Len(inS.got) + Len(inS.avail) IN
       \E k \in 1..(Len(outS.data) - sent) :
         inS' = [inS EXCEPT !.avail = inS.avail \o SubSeq(outS.data, sent + 1, sent + k)]
    /\ UNCHANGED <<rtVars, srvVars, libVars, cpVars, bodyVars, outS, rd, wr, wa>>

\* host: the incoming stream ends, with Closed after a finished body was
\* transferred in full, with a failure after the outgoing body was dropped
HostBodyEnd ==
    /\ inS.end = "open"
    /\ \/ /\ hb.out = "finished"
          /\ Len(inS.got) + Len(inS.avail) = Len(outS.data)
          /\ inS' = [inS EXCEPT !.end = "closed"]
       \/ /\ hb.out \in {"dropped", "failed"}
          /\ inS' = [inS EXCEPT !.end = "failed"]
    /\ UNCHANGED <<rtVars, srvVars, libVars, cpVars, bodyVars, outS, rd, wr, wa>>

\* host: the trailers of a finished body become available
HostTrailers ==
    /\ hb.out = "finished"
    /\ hb.ft = "pending"
    /\ hb' = [hb EXCEPT !.ft = "ready"]
    /\ UNCHANGED <<rtVars, srvVars, libVars, cpVars, ioVars, sd, ib>>

(***************************************************************************)
(* The HTTP server: the handle entry point the http_server macro           *)
(* generates (macro/src/lib.rs), try_from_incoming (src/http/request.rs),  *)
(* BodyHint::from_headers (src/http/body.rs) and the Responder             *)
(* (src/http/server.rs).                                                   *)
(***************************************************************************)
DigitChars == <<"0", "1", "2", "3", "4", "5", "6", "7", "8", "9">>

\* itoa::Buffer::format(len): the decimal digits of len, most significant
\* first, no sign and no leading zero
RECURSIVE itoaReversed(_)
itoaReversed(n) ==
    IF n < 10 THEN <<DigitChars[n + 1]>>
    ELSE <<DigitChars[(n % 10) + 1]>> \o itoaReversed(n \div 10)

RECURSIVE itoa(_)
itoa(n) ==
    IF n < 10 THEN <<DigitChars[n + 1]>>
    ELSE Append(itoa(n \div 10), DigitChars[(n % 10) + 1])

\* str::parse::<u64>(), body.rs lines 374-378: an empty string and a lone
\* sign are errors, one leading "+" is skipped, then every character must be
\* a decimal digit and the value is accumulated digit by digit.  (The
\* values here have too few digits to overflow 64 bits.)
RECURSIVE ParseDigits(_, _)
ParseDigits(s, acc) ==
    IF s = <<>> THEN [ok |-> TRUE, n |-> acc]
    ELSE IF \E d \in 1..10 : DigitChars[d] = s[1]
    THEN ParseDigits(Tail(s), acc * 10 + (CHOOSE d \in 1..10 : DigitChars[d] = s[1]) - 1)
    ELSE [ok |-> FALSE, n |-> 0]

parse_u64(s) ==
    IF s = <<>> THEN [ok |-> FALSE, n |-> 0]
    ELSE IF Len(s) = 1 /\ s[1] \in {"+", "-"} THEN [ok |-> FALSE, n |-> 0]
    ELSE IF s[1] = "+" THEN ParseDigits(Tail(s), 0)
    ELSE ParseDigits(s, 0)

\* HeaderMap::get(name): the first value of the name
HeaderGet(m, name) ==
    IF \E i \in 1..Len(m) : m[i][1] = name
    THEN Some(m[CHOOSE i \in 1..Len(m) :
                  /\ m[i][1] = name
                  /\ \A j \in 1..(i - 1) : m[j][1] # name][2])
    ELSE None

\* a from_headers that takes an unparseable Content-Length for none
from_headersLenient(headers) ==
    LET val == HeaderGet(headers, "content-length") IN
    IF val = None THEN [ok |-> TRUE, hint |-> None]
    ELSE LET v == CHOOSE x \in val : TRUE IN
         IF "0xFF" \in {v[i] : i \in 1..Len(v)} \/ ~parse_u64(v).ok
         THEN [ok |-> TRUE, hint |-> None]
         ELSE [ok |-> TRUE, hint |-> Some(parse_u64(v).n)]

\* BodyHint::from_headers, body.rs lines 372-382: Err(InvalidContentLength)
\* when the value is not UTF-8 ("0xFF" stands for such a byte) or does not
\* parse; hint is None for BodyHint::Unknown
from_headers(headers) ==
    LET val == HeaderGet(headers, "content-length") IN
    IF val = None THEN [ok |-> TRUE, hint |-> None]
    ELSE LET v == CHOOSE x \in val : TRUE IN
         IF "0xFF" \in {v[i] : i \in 1..Len(v)} \/ ~parse_u64(v).ok
         THEN [ok |-> FALSE, hint |-> None]
         ELSE [ok |-> TRUE, hint |-> Some(parse_u64(v).n)]

\* req are the Fields of the incoming request, decode how try_from_incoming
\* ended, request the body of the decoded request, response what the
\* handler returned, run the error it returned, outparam what the
\* ResponseOutparam was set to and sets how many times, respond what
\* Responder::respond returned, result what Responder::fail returned
IdleServer == [pc |-> "idle", req |-> <<>>, decode |-> "none", request |-> Incoming,
               response |-> [headers |-> <<>>, body |-> BodyFrom(<<>>)],
               run |-> NoResult,
               outparam |-> None, sets |-> 0, respond |-> NoResult,
               result |-> NoResult]

\* the errors that are a wasi ErrorCode: err.downcast_ref::<ErrorCode>() is
\* Some for them and None for every other error
ErrorCodes == {"HttpRequestMethodInvalid", "ConnectionReadTimeout"}

\* a fail that reports every error as an internal error
failInternal(f, err) ==
    [f EXCEPT !.pc = "done",
              !.outparam = Some([ok |-> FALSE, headers |-> <<>>,
                                 code |-> [kind |-> "InternalError", msg |-> err.err]]),
              !.sets = f.sets + 1,
              !.result = err]

\* Responder::fail, server.rs lines 78-86: the outparam is set to Err(code),
\* the code of an InternalError carrying the text of the error
fail(f, err) ==
    [f EXCEPT !.pc = "done",
              !.outparam = Some([ok |-> FALSE, headers |-> <<>>,
                                 code |-> IF err.err \in ErrorCodes
                                          THEN [kind |-> err.err, msg |-> ""]
                                          ELSE [kind |-> "InternalError", msg |-> err.err]]),
              !.sets = f.sets + 1,
              !.result = err]

\* handle, macro lines 127-146, up to the call of the handler:
\* try_from_incoming (request.rs lines 57-108) converts the headers, the
\* method (ErrorCode::HttpRequestMethodInvalid), scheme, authority and path
\* (an early error), takes the body hint from the headers, and builds the
\* uri and the request (a late error); on Err the responder fails
Handle(fields, other) ==
    /\ sv.pc = "idle"
    /\ LET h == from_headers(header_map_from_wasi(fields))
           decode == IF other = "method" THEN "HttpRequestMethodInvalid"
                     ELSE IF other = "early" THEN "Other"
                     ELSE IF ~h.ok THEN "InvalidContentLength"
                     ELSE IF other = "late" THEN "Other"
                     ELSE "ok"
       IN sv' = IF decode = "ok"
                THEN [sv EXCEPT !.pc = "run", !.req = fields, !.decode = decode,
                                !.request = FromIncoming(h.hint)]
                ELSE fail([sv EXCEPT !.req = fields, !.decode = decode], Err(decode))
    /\ UNCHANGED <<rtVars, libVars, ioVars, cpVars, bodyVars>>

\* macro line 142: the handler returned Err(err)
RunErr(err) ==
    /\ sv.pc = "run"
    /\ sv' = fail([sv EXCEPT !.run = err], err)
    /\ UNCHANGED <<rtVars, libVars, ioVars, cpVars, bodyVars>>

\* macro line 141 and Responder::respond, server.rs lines 38-65: the handler
\* returned Ok(response), having consumed the request; the headers are
\* converted (expect), Content-Length is appended for a body of known
\* length, and the outparam is set to the response
Respond(headers, body) ==
    /\ sv.pc = "run"
    /\ LET w == header_map_to_wasi(headers)
           len == content_length(body)
           wasi_headers == w.fields \o [i \in 1..Cardinality(len) |->
                             <<"content-length", itoa(CHOOSE n \in len : TRUE)>>]
       IN sv' = IF ~w.ok
                THEN [sv EXCEPT !.pc = "panicked", !.req = <<>>,
                                !.response = [headers |-> headers, body |-> body]]
                ELSE [sv EXCEPT !.pc = "send", !.req = <<>>,
                                !.response = [headers |-> headers, body |-> body],
                                !.outparam = Some([ok |-> TRUE, headers |-> wasi_headers,
                                                   code |-> [kind |-> "none", msg |-> ""]]),
                                !.sets = sv.sets + 1]
    /\ UNCHANGED <<rtVars, libVars, ioVars, cpVars, bodyVars>>

\* a respond that reports a failed body through the outparam
RespondReturnFails ==
    /\ sv.pc = "send"
    /\ sd.pc = "done"
    /\ sv' = IF sd.result.ok
             THEN [sv EXCEPT !.pc = "done", !.respond = sd.result]
             ELSE [fail(sv, sd.result) EXCEPT !.pc = "panicked", !.respond = sd.result]
    /\ UNCHANGED <<rtVars, libVars, ioVars, cpVars, bodyVars>>

\* server.rs line 69 and macro line 141: respond returns what body.send
\* returned, and the macro unwraps it
RespondReturn ==
    /\ sv.pc = "send"
    /\ sd.pc = "done"
    /\ sv' = [sv EXCEPT !.pc = IF sd.result.ok THEN "done" ELSE "panicked",
                        !.respond = sd.result]
    /\ UNCHANGED <<rtVars, libVars, ioVars, cpVars, bodyVars>>

(***************************************************************************)
(* The HTTP client, src/http/client.rs.  Client::send hands the request    *)
(* head to the host and then runs two branches under try_zip, which polls  *)
(* the body branch, then the response branch, each time the task is        *)
(* polled, returns the first Err a branch returns and drops the other      *)
(* branch with itself.                                                     *)
(***************************************************************************)
\* options: None, or Some of the three optional timeouts; handled counts the
\* calls of the host's handle and hopts is the options it was given;
\* supported are the timeouts the host turned out to accept; resp is the
\* response branch: idle | wait | ok | err | dropped
IdleClient == [pc |-> "idle", options |-> None, body |-> BodyFrom(<<>>),
               supported |-> {}, handled |-> 0, hopts |-> None, resp |-> "idle",
               result |-> NoResult]

\* set_connect_timeout, set_first_byte_timeout, set_between_bytes_timeout
\* over options_mut, lines 55-79
ClientSet(field, d) ==
    /\ cl.pc = "idle"
    /\ LET o == IF cl.options = None
                THEN [connect |-> None, first_byte |-> None, between_bytes |-> None]
                ELSE CHOOSE x \in cl.options : TRUE
       IN cl' = [cl EXCEPT !.options = Some([o EXCEPT ![field] = Some(d)])]
    /\ UNCHANGED <<rtVars, srvVars, ioVars, cpVars, bodyVars, tcp, tm, strVars>>

\* a send that goes on without the options the host rejected
ClientSendDropsOptions(headers, body, supported, refused) ==
    /\ cl.pc = "idle"
    /\ cl' = IF ~header_map_to_wasi(headers).ok
             THEN [cl EXCEPT !.pc = "done", !.result = Err("Other"),
                             !.supported = supported]
             ELSE [cl EXCEPT !.pc = IF refused THEN "panicked" ELSE "zip",
                             !.body = body,
                             !.supported = supported,
                             !.handled = cl.handled + 1,
                             !.hopts = None,
                             !.resp = IF refused THEN "idle" ELSE "wait"]
    /\ UNCHANGED <<rtVars, srvVars, ioVars, cpVars, bodyVars, tcp, tm, strVars>>

\* Client::send, lines 27-33: try_into_outgoing(req)? (the host may reject
\* a header), then wasi_options()? with RequestOptions::to_wasi, lines
\* 96-121, which fails at the first configured timeout the host does not
\* support, then the host's handle, whose Err is unwrapped
ClientSend(headers, body, supported, refused) ==
    /\ cl.pc = "idle"
    /\ cl' = IF ~header_map_to_wasi(headers).ok
             THEN [cl EXCEPT !.pc = "done", !.result = Err("Other"),
                             !.supported = supported]
             ELSE IF \E o \in cl.options :
                       \E f \in {"connect", "first_byte", "between_bytes"} :
                          o[f] # None /\ f \notin supported
             THEN [cl EXCEPT !.pc = "done", !.result = Err("NotSupported"),
                             !.supported = supported]
             ELSE [cl EXCEPT !.pc = IF refused THEN "panicked" ELSE "zip",
                             !.body = body,
                             !.supported = supported,
                             !.handled = cl.handled + 1,
                             !.hopts = cl.options,
                             !.resp = IF refused THEN "idle" ELSE "wait"]
    /\ UNCHANGED <<rtVars, srvVars, ioVars, cpVars, bodyVars, tcp, tm, strVars>>

\* a response branch that is polled only once the body branch is done
ClientResponseAfterBody(r) ==
    /\ cl.pc = "zip"
    /\ cl.resp = "wait"
    /\ sd.pc = "done" /\ sd.result.ok
    /\ cl' = IF r = "ok" THEN [cl EXCEPT !.resp = "ok"]
             ELSE [cl EXCEPT !.pc = "done", !.resp = "err", !.result = Err(r)]
    /\ UNCHANGED <<rtVars, srvVars, ioVars, cpVars, bodyVars, tcp, tm, strVars>>

\* the response branch, lines 40-48, polled after the body branch: the
\* response subscription is ready, and res.get() is an error code, or a
\* response that try_from_incoming decodes or rejects.  An Err ends try_zip
\* at once and drops the body branch with its stream and outgoing body.
ClientResponse(r) ==
    /\ cl.pc = "zip"
    /\ cl.resp = "wait"
    /\ sd.pc # "idle"
    /\ ~(sd.pc = "done" /\ ~sd.result.ok)
    /\ IF r = "ok"
       THEN /\ cl' = [cl EXCEPT !.resp = "ok"]
            /\ UNCHANGED <<sd, hb, wr, wa, cp>>
       ELSE /\ cl' = [cl EXCEPT !.pc = "done", !.resp = "err", !.result = Err(r)]
            /\ IF sd.pc = "done"
               THEN UNCHANGED <<sd, hb, wr, wa, cp>>
               ELSE /\ sd' = [sd EXCEPT !.pc = "dropped",
                                             !.calls = sd.calls \o SendUnwind(sd)]
                    /\ hb' = [hb EXCEPT !.out = "dropped"]
                    /\ wr' = IdleWrite
                    /\ wa' = IdleWriteAll
                    /\ cp' = IdleCopyTo
    /\ UNCHANGED <<rtVars, srvVars, inS, outS, rd, ib, fb, tcp, tm, strVars>>

\* try_zip(..).await?, lines 35-52: the body branch has failed, or both
\* branches have succeeded
ClientZip ==
    /\ cl.pc = "zip"
    /\ sd.pc = "done"
    /\ IF ~sd.result.ok
       THEN cl' = [cl EXCEPT !.pc = "done", !.result = sd.result,
                             !.resp = IF cl.resp = "wait" THEN "dropped" ELSE cl.resp]
       ELSE /\ cl.resp = "ok"
            /\ cl' = [cl EXCEPT !.pc = "done", !.result = Ok(0)]
    /\ UNCHANGED <<rtVars, srvVars, ioVars, cpVars, bodyVars, tcp, tm, strVars>>

(***************************************************************************)
(* TCP streams (src/net/tcp_stream.rs, src/net/mod.rs).                    *)
(***************************************************************************)
MaxAddrs == 2

MaxSplits == 2

\* net/mod.rs lines 12-30
to_io_err(err) ==
    CASE err = "Unknown" -> "Other"
      [] err = "AccessDenied" -> "PermissionDenied"
      [] err = "NotSupported" -> "Unsupported"
      [] err = "InvalidArgument" -> "InvalidInput"
      [] err = "OutOfMemory" -> "OutOfMemory"
      [] err = "Timeout" -> "TimedOut"
      [] err = "WouldBlock" -> "WouldBlock"
      [] err = "InvalidState" -> "InvalidData"
      [] err = "AddressInUse" -> "AddrInUse"
      [] err = "ConnectionRefused" -> "ConnectionRefused"
      [] err = "ConnectionReset" -> "ConnectionReset"
      [] err = "ConnectionAborted" -> "ConnectionAborted"
      [] err = "ConcurrencyConflict" -> "AlreadyExists"
      [] OTHER -> "Other"

\* i is the address the loop of connect is at, tried the addresses
\* connect_addr was called with, reads and writes the live halves, calls the
\* shutdowns and releases of the stream in their order
IdleTcp == [pc |-> "idle", addrs |-> <<>>, i |-> 1, last_err |-> None,
            result |-> NoResult, tried |-> <<>>,
            reads |-> 0, writes |-> 0, splits |-> 0, calls |-> <<>>]

\* connect, lines 40-42
ConnectCall(addrs) ==
    /\ tcp.pc = "idle"
    /\ tcp' = [tcp EXCEPT !.pc = "loop", !.addrs = addrs]
    /\ UNCHANGED <<rtVars, srvVars, ioVars, cpVars, bodyVars, cl, tm, strVars>>

\* one turn of the loop of connect, lines 43-52, with connect_addr up to its
\* await, lines 57-77
ConnectAddr ==
    /\ tcp.pc = "loop"
    /\ IF tcp.i > Len(tcp.addrs)
       THEN tcp' = [tcp EXCEPT
                      !.pc = "failed",
                      !.result = IF tcp.last_err = None
                                 THEN Err("InvalidInput")
                                 ELSE Err(CHOOSE e \in tcp.last_err : TRUE)]
       ELSE LET addr == tcp.addrs[tcp.i]
                t == [tcp EXCEPT !.tried = Append(tcp.tried, tcp.i)]
            IN  tcp' = CASE addr.stage = "create" ->
                              [t EXCEPT !.last_err = Some(to_io_err(addr.code)),
                                        !.i = tcp.i + 1]
                         [] addr.stage # "create" /\ addr.family = "V6" ->
                              [t EXCEPT !.pc = "panicked"]
                         [] addr.stage = "start" /\ addr.family = "V4" ->
                              [t EXCEPT !.last_err = Some(to_io_err(addr.code)),
                                        !.i = tcp.i + 1]
                         [] OTHER -> [t EXCEPT !.pc = "connecting"]
    /\ UNCHANGED <<rtVars, srvVars, ioVars, cpVars, bodyVars, cl, tm, strVars>>

\* connect_addr after its await, lines 78-80, and lines 45-46 of connect
ConnectFinish ==
    /\ tcp.pc = "connecting"
    /\ LET addr == tcp.addrs[tcp.i]
       IN  IF addr.stage = "finish"
           THEN tcp' = [tcp EXCEPT !.pc = "loop",
                                   !.last_err = Some(to_io_err(addr.code)),
                                   !.i = tcp.i + 1]
           ELSE tcp' = [tcp EXCEPT !.pc = "connected", !.result = Ok(tcp.i)]
    /\ UNCHANGED <<rtVars, srvVars, ioVars, cpVars, bodyVars, cl, tm, strVars>>

\* split, lines 89-91
Split ==
    /\ tcp.pc = "connected"
    /\ tcp.splits < MaxSplits
    /\ tcp' = [tcp EXCEPT !.reads = tcp.reads + 1, !.writes = tcp.writes + 1,
                          !.splits = tcp.splits + 1]
    /\ UNCHANGED <<rtVars, srvVars, ioVars, cpVars, bodyVars, cl, tm, strVars>>

\* a ReadHalf whose drop shuts the socket down in both directions
DropReadHalfBoth ==
    /\ tcp.reads > 0
    /\ tcp' = [tcp EXCEPT !.reads = tcp.reads - 1,
                          !.calls = Append(tcp.calls, "shutdown Both")]
    /\ UNCHANGED <<rtVars, srvVars, ioVars, cpVars, bodyVars, cl, tm, strVars>>

\* Drop for ReadHalf, lines 161-168
DropReadHalf ==
    /\ tcp.reads > 0
    /\ tcp' = [tcp EXCEPT !.reads = tcp.reads - 1,
                          !.calls = Append(tcp.calls, "shutdown Receive")]
    /\ UNCHANGED <<rtVars, srvVars, ioVars, cpVars, bodyVars, cl, tm, strVars>>

\* Drop for WriteHalf, lines 185-192
DropWriteHalf ==
    /\ tcp.writes > 0
    /\ tcp' = [tcp EXCEPT !.writes = tcp.writes - 1,
                          !.calls = Append(tcp.calls, "shutdown Send")]
    /\ UNCHANGED <<rtVars, srvVars, ioVars, cpVars, bodyVars, cl, tm, strVars>>

\* Drop for TcpStream, lines 94-100, then its fields in the order of their
\* declaration, lines 17-21; the halves borrow the stream, so none is alive
DropStream ==
    /\ tcp.pc = "connected"
    /\ tcp.reads = 0 /\ tcp.writes = 0
    /\ tcp' = [tcp EXCEPT !.pc = "released",
                          !.calls = tcp.calls \o <<"shutdown Both", "drop input",
                                                    "drop output", "drop socket">>]
    /\ UNCHANGED <<rtVars, srvVars, ioVars, cpVars, bodyVars, cl, tm, strVars>>

\* the stages at which TcpListener::bind ends (src/net/tcp_listener.rs): the
\* address does not parse, a host call fails, the address conversion
\* panics, the future is dropped at one of its awaits, or the listener is
\* built
BindStages ==
    {"parse", "create", "sockaddr", "start_bind", "await_bind", "finish_bind",
     "start_listen", "await_listen", "finish_listen", "ok"}

\* the release of a TcpListener: its fields in the order of their
\* declaration, lines 14-18
ListenerFields == <<"drop pollable", "drop socket">>

\* what bind releases when it ends early: its live locals in the reverse
\* order of their declaration (socket at line 32, pollable at line 41)
BindUnwind(stage) ==
    CASE stage \in {"parse", "create"} -> <<>>
      [] stage \in {"sockaddr", "start_bind"} -> <<"drop socket">>
      [] OTHER -> <<"socket.subscribe", "drop pollable", "drop socket">>

\* TcpListener::bind, lines 24-49
ListenerBind(stage) ==
    /\ tcp.pc = "idle"
    /\ tcp' = IF stage = "ok"
              THEN [tcp EXCEPT !.pc = "listening", !.result = Ok(0),
                               !.calls = <<"socket.subscribe">>]
              ELSE [tcp EXCEPT !.pc = IF stage = "sockaddr" THEN "panicked"
                                      ELSE IF stage \in {"await_bind", "await_listen"}
                                      THEN "dropped" ELSE "failed",
                               !.calls = BindUnwind(stage)]
    /\ UNCHANGED <<rtVars, srvVars, ioVars, cpVars, bodyVars, cl, tm, strVars>>

\* the listener goes out of scope
ListenerDrop ==
    /\ tcp.pc = "listening"
    /\ tcp' = [tcp EXCEPT !.pc = "released", !.calls = tcp.calls \o ListenerFields]
    /\ UNCHANGED <<rtVars, srvVars, ioVars, cpVars, bodyVars, cl, tm, strVars>>

(***************************************************************************)
(* Time (src/time/mod.rs).                                                 *)
(***************************************************************************)
MaxNow == 6

MaxSeconds == 2

MaxNanoseconds == 2

\* now is the monotonic clock; an Interval of duration d whose next was
\* called at instant called, with its timer due at deadline, yielded item;
\* prev is the instant of the yield before that; since is the last call of
\* duration_since
IdleTime == [now |-> 0, pc |-> "idle", d |-> 1, called |-> 0, deadline |-> 0,
             item |-> 0, prev |-> None, since |-> None]

\* the monotonic clock advances
ClockTick ==
    /\ tm.now < MaxNow
    /\ tm' = [tm EXCEPT !.now = tm.now + 1]
    /\ UNCHANGED <<rtVars, srvVars, ioVars, cpVars, bodyVars, cl, tcp, strVars>>

\* interval, lines 55-57
IntervalNew(d) ==
    /\ tm.pc = "idle"
    /\ tm' = [tm EXCEPT !.pc = "made", !.d = d]
    /\ UNCHANGED <<rtVars, srvVars, ioVars, cpVars, bodyVars, cl, tcp, strVars>>

\* Interval::next, lines 69-71, up to the await: Timer::after, lines 85-88,
\* subscribes to the duration from now on
IntervalNext ==
    /\ tm.pc \in {"made", "yielded"}
    /\ tm' = [tm EXCEPT !.pc = "waiting", !.called = tm.now,
                        !.deadline = tm.now + tm.d,
                        !.prev = IF tm.pc = "yielded" THEN Some(tm.item) ELSE None]
    /\ UNCHANGED <<rtVars, srvVars, ioVars, cpVars, bodyVars, cl, tcp, strVars>>

\* Wait::poll, lines 110-119, once the pollable is ready: Some(Instant::now())
IntervalYield ==
    /\ tm.pc = "waiting"
    /\ tm.now >= tm.deadline
    /\ tm' = [tm EXCEPT !.pc = "yielded", !.item = tm.now]
    /\ UNCHANGED <<rtVars, srvVars, ioVars, cpVars, bodyVars, cl, tcp, strVars>>

\* SystemTime::duration_since, lines 40-49; the Duration is kept as its
\* seconds and nanoseconds
duration_since(self, earlier) ==
    IF self.seconds >= earlier.seconds /\ self.nanoseconds >= earlier.nanoseconds
    THEN [ok |-> TRUE, seconds |-> self.seconds - earlier.seconds,
          nanoseconds |-> self.nanoseconds - earlier.nanoseconds]
    ELSE [ok |-> FALSE, seconds |-> 0, nanoseconds |-> 0]

\* one call of duration_since with two wall-clock values
DurationSinceCall(self, earlier) ==
    /\ tm' = [tm EXCEPT !.since = Some([self |-> self, earlier |-> earlier,
                                        result |-> duration_since(self, earlier)])]
    /\ UNCHANGED <<rtVars, srvVars, ioVars, cpVars, bodyVars, cl, tcp, strVars>>

(***************************************************************************)
(* Initial states: every component starts idle; each specification lets    *)
(* one component run.                                                      *)
(***************************************************************************)
RuntimeIdle ==
    /\ REACTOR = None
    /\ pc = "idle"
    /\ outer = 0
    /\ tasks = <<>>
    /\ ready_list = <<>>
    /\ wakers = [p \in Pollables |-> <<>>]
    /\ hostReady = {}
    /\ last = Last("none", 0, FALSE, FALSE, FALSE)

AdaptersIdle ==
    /\ rd = IdleRead
    /\ wr = IdleWrite
    /\ wa = IdleWriteAll
    /\ cp = IdleCopyTo
    /\ fb = IdleCopy
    /\ sd = IdleSend
    /\ ib = IdleContents
    /\ hb = IdleHostBody
    /\ sv = IdleServer
    /\ cl = IdleClient
    /\ tcp = IdleTcp
    /\ tm = IdleTime
    /\ bs = IdleByteStream
    /\ sh = IdleShared

StreamsIdle ==
    /\ inS = InStream(<<>>, "closed")
    /\ outS = OutStream(0, "closed", FALSE)

InitRuntime ==
    /\ RuntimeIdle
    /\ calls = 0
    /\ StreamsIdle
    /\ AdaptersIdle

Driver == Break \/ BlockOnPollables \/ RunTask \/ Final

NextRuntime ==
    \/ \E prog \in RootProgs : Enter(prog)
    \/ Driver
    \/ \E p \in Pollables : HostReady(p)

SpecRuntime == InitRuntime /\ [][NextRuntime]_vars

\* The instance has already served all but one of its calls.
InitLastCall ==
    /\ RuntimeIdle
    /\ calls = MaxCalls - 1
    /\ StreamsIdle
    /\ AdaptersIdle

\* block_on is a sequential loop: the driver keeps taking steps while it can.
FairRuntime == InitLastCall /\ [][NextRuntime]_vars /\ WF_vars(Driver)

\* AsyncInputStream::read on a stream with any content and any ending
InitRead ==
    /\ RuntimeIdle
    /\ calls = 0
    /\ inS \in {InStream(c, e) : c \in Contents, e \in {"open", "closed", "failed"}}
    /\ outS = OutStream(0, "closed", FALSE)
    /\ AdaptersIdle

NextRead ==
    \/ \E len \in 0..MaxLen : ReadCall(len)
    \/ ReadPoll
    \/ HostArrive
    \/ HostSpurious

SpecRead == InitRead /\ [][NextRead]_vars

\* A byte stream over the input stream, polled by one task
NextBytes ==
    \/ BytePollNext
    \/ ByteWake
    \/ ByteIntoInner
    \/ HostArrive
    \/ HostSpurious

SpecBytes == InitRead /\ [][NextBytes]_vars

\* Two tasks that read from one stream they share by reference
NextShared ==
    \/ \E t \in 1..NumReaders, len \in 1..MaxLen : SharedRead(t, len)
    \/ \E t \in 1..NumReaders : SharedPoll(t)
    \/ \E t \in 1..NumReaders : SharedReturn(t)
    \/ HostArrive
    \/ HostSpurious

SpecShared == InitRead /\ [][NextShared]_vars

\* AsyncOutputStream::write and write_all on a stream that ends after any
\* number of bytes
InitWrite ==
    /\ RuntimeIdle
    /\ calls = 0
    /\ inS = InStream(<<>>, "closed")
    /\ outS \in {OutStream(l, e, f) :
                   l \in 0..NoLimit, e \in {"closed", "failed"}, f \in BOOLEAN}
    /\ AdaptersIdle

NextWrite ==
    \/ \E buf \in Contents : WriteCall(buf)
    \/ \E buf \in Contents : WriteAllCall(buf)
    \/ WriteCheck
    \/ WriteReady
    \/ WriteAllNext
    \/ HostGrant

SpecWrite == InitWrite /\ [][NextWrite]_vars

\* The task runs on and the host keeps granting capacity.
FairWrite ==
    SpecWrite /\ WF_vars(WriteCheck) /\ WF_vars(WriteReady) /\ WF_vars(WriteAllNext)
              /\ WF_vars(HostGrant)

\* io::copy between two stream adapters: any content, any ending of the
\* input, a writer that ends after any number of bytes
InitCopy ==
    /\ RuntimeIdle
    /\ calls = 0
    /\ inS \in {InStream(c, e) : c \in Contents, e \in {"open", "closed", "failed"}}
    /\ outS \in {OutStream(l, e, FALSE) : l \in 0..NoLimit, e \in {"closed", "failed"}}
    /\ AdaptersIdle

NextCopy ==
    \/ CopyFast
    \/ CopyReadyIn
    \/ CopyReadyOut
    \/ CopySplice
    \/ CopySlow
    \/ CopyAfterRead
    \/ CopyAfterWrite
    \/ ReadPoll
    \/ WriteCheck
    \/ WriteReady
    \/ WriteAllNext
    \/ HostArrive
    \/ HostSpurious
    \/ HostGrant

SpecCopy == InitCopy /\ [][NextCopy]_vars

\* An in-memory body sent to an outgoing body whose stream ends after any
\* number of bytes, and the peer collecting its incoming body, which came
\* with a Content-Length or without
InitBody ==
    /\ RuntimeIdle
    /\ calls = 0
    /\ inS = InStream(<<>>, "open")
    /\ outS \in {OutStream(l, e, f) :
                   l \in 0..NoLimit, e \in {"closed", "failed"}, f \in BOOLEAN}
    /\ rd = IdleRead /\ wr = IdleWrite /\ wa = IdleWriteAll
    /\ cp = IdleCopyTo /\ fb = IdleCopy
    /\ sd = IdleSend
    /\ ib \in {[IdleContents EXCEPT !.inner = FromIncoming(h)] :
                 h \in {None, Some(MaxLen)}}
    /\ hb = IdleHostBody
    /\ sv = IdleServer
    /\ cl = IdleClient
    /\ tcp = IdleTcp
    /\ tm = IdleTime
    /\ bs = IdleByteStream
    /\ sh = IdleShared

NextBody ==
    \/ \E v \in Contents : SendCall(BodyFrom(v))
    \/ \E v \in Contents, t \in HeaderMaps : SendCall(Complete(v, Some(t)))
    \/ SendAfterWrite
    \/ WriteCheck
    \/ WriteReady
    \/ WriteAllNext
    \/ ContentsCall
    \/ ContentsDrop
    \/ BodyInto
    \/ PollFrame
    \/ BodyWake
    \/ HostGrant
    \/ HostSpurious
    \/ HostTransfer
    \/ HostBodyEnd
    \/ HostTrailers

SpecBody == InitBody /\ [][NextBody]_vars

\* An http_body of a few frames sent to an outgoing body whose stream closes
\* after one byte or accepts every frame, and the peer collecting its
\* incoming body
MaxFrames == 2

FrameSet ==
    {Frame("data", <<1>>, <<>>), Frame("data", <<2, 1>>, <<>>),
     Frame("error", <<>>, <<>>)}
      \cup {Frame("trailers", <<>>, m) : m \in HeaderMaps}

InitFrames ==
    /\ RuntimeIdle
    /\ calls = 0
    /\ inS = InStream(<<>>, "open")
    /\ outS \in {OutStream(l, "closed", FALSE) : l \in {1, 2 * MaxFrames + 1}}
    /\ AdaptersIdle

NextFrames ==
    \/ \E frames \in SeqsUpTo(FrameSet, MaxFrames) : SendBoxed(Boxed(frames))
    \/ SendFrame
    \/ SendAfterFrameWrite
    \/ WriteCheck
    \/ WriteReady
    \/ WriteAllNext
    \/ ContentsCall
    \/ PollFrame
    \/ BodyWake
    \/ HostGrant
    \/ HostTransfer
    \/ HostBodyEnd
    \/ HostTrailers

SpecFrames == InitFrames /\ [][NextFrames]_vars

\* Body::send alone, for each of the three variants: an in-memory body, an
\* http_body of up to MaxSendFrames frames, an incoming body whose stream is
\* inS; the outgoing stream ends after any number of bytes, and the future
\* may be dropped at any await
MaxSendFrames == 3

InitSend ==
    /\ RuntimeIdle
    /\ calls = 0
    /\ inS \in {InStream(c, e) : c \in {<<>>, <<1, 2>>}, e \in {"closed", "failed"}}
    /\ outS \in {OutStream(l, e, FALSE) : l \in 0..NoLimit, e \in {"closed", "failed"}}
    /\ AdaptersIdle

NextSend ==
    \/ \E v \in Contents, t \in {None} \cup {Some(m) : m \in HeaderMaps} :
         SendCall(Complete(v, t))
    \/ SendAfterWrite
    \/ \E frames \in SeqsUpTo(FrameSet, MaxSendFrames) : SendBoxed(Boxed(frames))
    \/ SendFrame
    \/ SendAfterFrameWrite
    \/ \E h \in {None, Some(MaxLen)} : SendIncoming(FromIncoming(h))
    \/ CopyReadyIn
    \/ CopyReadyOut
    \/ CopySplice
    \/ SendAfterCopy
    \/ SendAfterTrailers
    \/ SendDrop
    \/ WriteCheck
    \/ WriteReady
    \/ WriteAllNext
    \/ HostArrive
    \/ HostGrant

SpecSend == InitSend /\ [][NextSend]_vars

\* The owners of host resources side by side: a listener that is bound and
\* dropped, and one incoming body that is either forwarded by send or read
\* by the decoder of into_boxed_body
NextRelease ==
    \/ \E stage \in BindStages : ListenerBind(stage)
    \/ ListenerDrop
    \/ ib.pc = "idle" /\ \E t \in {None} \cup {Some(m) : m \in HeaderMaps} :
                           SendCall(Complete(<<1, 2>>, t))
    \/ SendAfterWrite
    \/ ib.pc = "idle" /\ \E frames \in SeqsUpTo(FrameSet, MaxFrames) : SendBoxed(Boxed(frames))
    \/ SendFrame
    \/ SendAfterFrameWrite
    \/ ib.pc = "idle" /\ SendIncoming(FromIncoming(None))
    \/ CopyReadyIn
    \/ CopyReadyOut
    \/ CopySplice
    \/ SendAfterCopy
    \/ SendAfterTrailers
    \/ SendDrop
    \/ WriteCheck
    \/ WriteReady
    \/ WriteAllNext
    \/ HostArrive
    \/ HostGrant
    \/ sd.pc = "idle" /\ ContentsCall
    \/ ContentsDrop
    \/ PollFrame
    \/ BodyWake

SpecRelease == InitSend /\ [][NextRelease]_vars

\* One request through the generated handle: any request headers, a
\* handler that fails or answers with an in-memory body, a frame-producing
\* body or the request's own body, under headers that may already carry a
\* Content-Length
MaxValueLen == 2

ValueChars == {"0", "1", "+", "x", "0xFF"}

RequestFields ==
    SeqsUpTo({<<"content-length", v>> : v \in SeqsUpTo(ValueChars, MaxValueLen)}
               \cup {<<"k", <<"v">>>>}, MaxHeaders + 1)

ResponseBodies ==
    {BodyFrom(<<>>), BodyFrom(<<1, 2>>),
     Boxed(<<Frame("data", <<1>>, <<>>)>>), Boxed(<<Frame("error", <<>>, <<>>)>>)}

InitServer ==
    /\ RuntimeIdle
    /\ calls = 0
    /\ inS \in {InStream(<<1, 2>>, e) : e \in {"closed", "failed"}}
    /\ outS \in {OutStream(l, "closed", FALSE) : l \in {0, NoLimit}}
    /\ AdaptersIdle

NextServer ==
    \/ \E fields \in RequestFields, other \in {"none", "method", "early", "late"} :
         Handle(fields, other)
    \/ \E e \in {"Other"} \cup ErrorCodes : RunErr(Err(e))
    \/ \E headers \in HeaderMaps \cup {<<<<"content-length", <<"2">>>>>>},
          body \in ResponseBodies \cup {sv.request} :
         Respond(headers, body)
    \/ sv.pc = "send" /\ sv.response.body.kind = "Complete" /\ SendCall(sv.response.body)
    \/ sv.pc = "send" /\ sv.response.body.kind = "Boxed" /\ SendBoxed(sv.response.body)
    \/ sv.pc = "send" /\ sv.response.body.kind = "Incoming" /\ SendIncoming(sv.response.body)
    \/ SendAfterWrite
    \/ SendFrame
    \/ SendAfterFrameWrite
    \/ CopyReadyIn
    \/ CopyReadyOut
    \/ CopySplice
    \/ SendAfterCopy
    \/ SendAfterTrailers
    \/ RespondReturn
    \/ WriteCheck
    \/ WriteReady
    \/ WriteAllNext
    \/ HostArrive
    \/ HostGrant

SpecServer == InitServer /\ [][NextServer]_vars

\* One Client: its timeouts are set, then one request is sent whose body is
\* in memory or an incoming body read from inS.  The task is polled again
\* whenever the response is ready, and try_zip returns as soon as it can.
NextClient ==
    \/ \E f \in {"connect", "first_byte", "between_bytes"} : ClientSet(f, 1)
    \/ \E headers \in HeaderMaps, body \in {BodyFrom(<<1, 2>>), Incoming},
          supported \in SUBSET {"connect", "first_byte", "between_bytes"},
          refused \in BOOLEAN :
         ClientSend(headers, body, supported, refused)
    \/ cl.pc = "zip" /\ cl.body.kind = "Complete" /\ SendCall(cl.body)
    \/ cl.pc = "zip" /\ cl.body.kind = "Incoming" /\ SendIncoming(cl.body)
    \/ cl.pc = "zip" /\ SendAfterWrite
    \/ cl.pc = "zip" /\ WriteCheck
    \/ cl.pc = "zip" /\ WriteReady
    \/ cl.pc = "zip" /\ WriteAllNext
    \/ cl.pc = "zip" /\ CopyReadyIn
    \/ cl.pc = "zip" /\ CopyReadyOut
    \/ cl.pc = "zip" /\ CopySplice
    \/ cl.pc = "zip" /\ SendAfterCopy
    \/ cl.pc = "zip" /\ SendAfterTrailers
    \/ \E r \in {"ok", "Other"} \cup ErrorCodes : ClientResponse(r)
    \/ ClientZip
    \/ HostArrive
    \/ HostGrant

SpecClient ==
    /\ InitSend
    /\ [][NextClient]_vars
    /\ WF_vars(\E r \in {"ok", "Other"} \cup ErrorCodes : ClientResponse(r))
    /\ WF_vars(ClientZip)

\* One call of TcpStream::connect with up to MaxAddrs addresses, then the
\* stream is split, and the halves and the stream are dropped.  An address
\* has its family and what the host does with a connection to it: the
\* connection is made, or create_tcp_socket, start_connect or finish_connect
\* fails with an error code.
NextNet ==
    \/ \E addrs \in SeqsUpTo({[family |-> f, stage |-> o[1], code |-> o[2]] :
                                f \in {"V4", "V6"},
                                o \in {<<"ok", "none">>, <<"create", "NotSupported">>,
                                       <<"start", "InvalidArgument">>,
                                       <<"finish", "ConnectionRefused">>,
                                       <<"finish", "Timeout">>}},
                             MaxAddrs) :
         ConnectCall(addrs)
    \/ ConnectAddr
    \/ ConnectFinish
    \/ Split
    \/ DropReadHalf
    \/ DropWriteHalf
    \/ DropStream

SpecNet == InitRuntime /\ [][NextNet]_vars

\* The clock runs while one Interval is consumed and duration_since is
\* called with any two wall-clock values
NextTime ==
    \/ ClockTick
    \/ \E d \in 1..2 : IntervalNew(d)
    \/ IntervalNext
    \/ IntervalYield
    \/ \E self, earlier \in [seconds : 0..MaxSeconds, nanoseconds : 0..MaxNanoseconds] :
         DurationSinceCall(self, earlier)

SpecTime == InitRuntime /\ [][NextTime]_vars


(***************************************************************************)
(* Claims about the runtime.                                               *)
(***************************************************************************)
TaskIds == 1..(1 + MaxProgLen)

\* C1: a block_on called while the singleton is set panics; no second event
\* loop starts and no task of the nested future exists or runs: every task
\* belongs to the outer reactor, and once a nested call was made the
\* instance has panicked as a re-entry.
C1_ReentryPanics ==
    /\ last.nested => pc = "panicked" /\ last.kind = "reentry"
    /\ \A i \in DOMAIN tasks : tasks[i].reactor = outer

C1_Witness ==
    /\ pc = "panicked"
    /\ last.kind = "reentry"
    /\ last.nested
    /\ tasks # <<>>

\* C2: whenever the driver loop has terminated the root task is complete, so
\* the final poll of the root task is never Pending and the unreachable
\* branch is never taken.
C2_RootCompleteAtExit ==
    /\ pc = "final" => tasks[Root].state = "done"
    /\ last.kind # "unreachable"

\* C3: a task parked on a pollable the host reports ready is run after
\* finitely many driver steps (unless a re-entrant block_on aborts the
\* instance), even while another task wakes itself on every run; and a task
\* run that leaves the ready list non-empty is followed by a pollable check:
\* no pollable the host reports ready still has a waiting task.
ParkedOnReady(i) ==
    /\ pc = "loop"
    /\ i \in DOMAIN tasks
    /\ tasks[i].state = "parked"
    /\ \E p \in hostReady : InSeq(i, wakers[p])

RanTask(i) == (last.kind = "run" /\ last.task = i) \/ pc = "panicked"

C3_NoStarvation ==
    /\ \A i \in TaskIds : ParkedOnReady(i) ~> RanTask(i)
    /\ [][(pc = "loop" /\ ready_list # <<>> /\ pc' = "loop"
             /\ hostReady' = hostReady /\ ready_list' # <<>>)
            => PendingPollables(wakers') \cap hostReady' = {}]_vars

\* a task woken out of a ready pollable while a spinning task keeps the ready
\* list non-empty
C3_Witness ==
    /\ pc = "loop"
    /\ last.kind = "run"
    /\ \E i \in DOMAIN tasks :
         /\ i # last.task
         /\ tasks[last.task].prog = ChildProg(0)
         /\ tasks[i].prog # ChildProg(0)
         /\ tasks[i].state = "done"
         /\ tasks[i].prog # <<>>
         /\ tasks[i].prog[1].op = "Timer"

\* C4: the singleton is set exactly while block_on is running: outside it is
\* None, inside the loop it is the reactor constructed at entry, it is
\* cleared when the loop ends, and a block_on entered from outside never
\* panics as a re-entry, however many calls came before.
C4_SingletonExtent ==
    /\ pc = "idle" => REACTOR = None
    /\ pc = "loop" => REACTOR = Some(outer)
    /\ pc = "final" => REACTOR = None
    /\ last.kind = "reentry" => last.task # 0

\* a second call has returned
C4_Witness ==
    /\ pc = "idle"
    /\ last.kind = "return"
    /\ calls >= 2
    /\ REACTOR = None

(***************************************************************************)
(* Claims about the stream adapters.                                       *)
(***************************************************************************)
\* C5: read returns Ok(0) only after the host read reported Closed; after an
\* empty host read it has not returned and awaits readiness again; after a
\* host read with data it has returned n = the length of the data, with
\* 1 <= n <= buf.len(), buf[0..n] holding exactly those bytes, which are the
\* last bytes taken from the stream.
C5_ReadEof ==
    /\ (rd.pc = "done" /\ rd.result = Ok(0)) => rd.host = "closed"
    /\ rd.host = "empty" => rd.pc = "await"
    /\ rd.host = "data" =>
         /\ rd.pc = "done"
         /\ rd.result = Ok(Len(rd.chunk))
         /\ 1 <= rd.result.n /\ rd.result.n <= Len(rd.buf)
         /\ Take(rd.buf, rd.result.n) = rd.chunk
         /\ Drop(inS.got, Len(inS.got) - rd.result.n) = rd.chunk

\* an empty read after the stream has already delivered data
C5_Witness ==
    /\ rd.host = "empty"
    /\ rd.pc = "await"
    /\ inS.got # <<>>
    /\ inS.future # <<>>

\* C6: a write call issues at most one host write; every host write follows a
\* check_write that reported a positive capacity k and carries exactly the
\* first min(k, buf.len()) bytes of buf; while the call waits for readiness
\* it has written nothing; the count returned is the length of that write.
C6_WriteBackpressure ==
    /\ Len(wr.writes) <= 1
    /\ \A i \in 1..Len(wr.writes) :
         /\ wr.writes[i].cap > 0
         /\ wr.writes[i].bytes = Take(wr.buf, Min(wr.writes[i].cap, Len(wr.buf)))
    /\ wr.pc \in {"check", "await"} => wr.writes = <<>>
    /\ (wr.pc = "done" /\ wr.result.ok) =>
         /\ Len(wr.writes) = 1
         /\ wr.result.n = Len(wr.writes[1].bytes)

\* a partial write after waiting for readiness
C6_Witness ==
    /\ wr.pc = "done"
    /\ wr.result.ok
    /\ wr.result.n >= 1
    /\ wr.result.n < Len(wr.buf)
    /\ wa.pc = "idle"

\* C7: write_all returns Ok only when the host has accepted exactly buf; at
\* every moment, and so when it returns Err, the bytes handed to the host
\* are a prefix of buf; for a non-empty buf every completed loop iteration
\* wrote at least one byte; and under a host that keeps granting capacity it
\* terminates.
C7_WriteAll ==
    /\ [](wa.pc # "idle" =>
            /\ IsPrefix(outS.handed, wa.buf)
            /\ wa.to_write = Drop(wa.buf, Len(wa.buf) - Len(wa.to_write))
            /\ (wa.pc = "done" /\ wa.result.ok) =>
                  outS.data = wa.buf /\ outS.handed = wa.buf
            /\ wa.buf # <<>> => wa.rounds <= Len(wa.buf) - Len(wa.to_write))
    /\ (wa.pc = "write") ~> (wa.pc = "done")

\* write_all completed over several partial writes
C7_Witness ==
    /\ wa.pc = "done"
    /\ wa.result.ok
    /\ wa.rounds >= 2
    /\ outS.data = wa.buf

(***************************************************************************)
(* Claims about copying.                                                   *)
(***************************************************************************)
\* C8: copy_to returns Ok(total) only once the input stream has closed, with
\* total the sum of the counts the host's splices returned; every splice was
\* issued after awaiting read-readiness of the source and write-readiness of
\* the writer; a splice that reports a failure ends the call with an error.
C8_CopyToUntilInputClosed ==
    fb.pc = "idle" =>
      /\ (cp.pc = "done" /\ cp.result.ok) =>
            /\ InEnded(inS) /\ inS.end = "closed"
            /\ cp.result.n = cp.spliced
      /\ cp.written = cp.spliced
      /\ ~cp.eager
      /\ cp.last = "failed" => (cp.pc = "done" /\ ~cp.result.ok)

\* C9: over the same content and the same behaviour of the two streams, the
\* read / write_all loop ends as copy_to ended (both Ok or both Err) and has
\* delivered the same bytes to the writer.
C9_CopyEquivalent ==
    fb.pc = "done" =>
      \A r \in fb.ref : fb.result.ok = r.ok /\ outS.data = r.data

(***************************************************************************)
(* Claims about the HTTP body engine.                                      *)
(***************************************************************************)
\* C10: when Body::from(v) is sent to an outgoing body and the peer's
\* contents() has read the incoming body to its end (the decoder has yielded
\* its last frame) and returned Ok, the send has succeeded and the peer's
\* body holds exactly v and no trailers, whatever the chunking of writes
\* and reads.
C10_InMemoryRoundTrip ==
    (ib.pc = "done" /\ ib.result.ok /\ ib.state = "None" /\ ~ib.cached
       /\ sd.body = BodyFrom(sd.body.data)) =>
       /\ ib.inner = Complete(sd.body.data, None)
       /\ ib.result = Ok(Len(sd.body.data))
       /\ sd.pc = "done" /\ sd.result.ok

\* a body of several bytes that went through several writes and several
\* data frames
C10_Witness ==
    /\ ib.pc = "done"
    /\ ib.result.ok
    /\ sd.body = BodyFrom(sd.body.data)
    /\ ib.state = "None"
    /\ ~ib.cached
    /\ ib.inner.data = sd.body.data
    /\ wa.rounds >= 2
    /\ ib.frames >= 2

\* the bytes of the data frames of a sequence of frames, in order
RECURSIVE FramesData(_)
FramesData(frames) ==
    IF frames = <<>> THEN <<>>
    ELSE FramesData(SubSeq(frames, 1, Len(frames) - 1)) \o frames[Len(frames)].data

\* a body that produces data frames and then one frame of trailers {k: v}
TrailedBody(b) ==
    /\ b.kind = "Boxed"
    /\ b.frames # <<>>
    /\ b.frames[Len(b.frames)].kind = "trailers"
    /\ b.frames[Len(b.frames)].map # <<>>
    /\ \A i \in 1..(Len(b.frames) - 1) : b.frames[i].kind = "data"

\* C11: when a body of data frames followed by trailers {k: v} is sent, the
\* peer's decoder yields at most one trailer frame; when it yields it, every
\* byte of the data frames has been yielded before and the trailers are
\* {k: v}; and a collection that reads the body to its end has seen that
\* frame exactly once and holds the data and those trailers.
C11_TrailerRoundTrip ==
    TrailedBody(sd.body) =>
      LET m == sd.body.frames[Len(sd.body.frames)].map IN
      /\ ib.ntrailers <= 1
      /\ ib.ntrailers = 1 =>
           /\ ib.bufs = FramesData(sd.body.frames)
           /\ ib.trailers = Some(m)
      /\ (ib.pc = "done" /\ ib.result.ok /\ ~ib.cached) =>
           /\ ib.ntrailers = 1
           /\ ib.inner = Complete(FramesData(sd.body.frames), Some(m))

\* data of several bytes, then trailers, collected by the peer
C11_Witness ==
    /\ TrailedBody(sd.body)
    /\ Len(sd.body.frames) >= 2
    /\ ib.pc = "done"
    /\ ib.result.ok
    /\ ~ib.cached
    /\ Len(ib.inner.data) >= 2
    /\ ib.inner.trailers # None

\* C12: the decoder yields at most one trailer frame and no data frame after
\* it; once it has yielded the trailer frame or None its state is empty
\* (is_end_stream) and every later poll_frame yields None and nothing else;
\* it never moves from the Trailers state back to the Body state.
C12_FrameOrdering ==
    /\ [](/\ ib.ntrailers <= 1
          /\ ib.last \in {"trailers", "none"} => ib.state = "None")
    /\ [][/\ ib.state = "Trailers" => ib'.state # "Body"
          /\ ib.ntrailers >= 1 => ib'.frames = ib.frames
          /\ ib.state = "None" =>
               /\ ib'.state = "None"
               /\ ib'.last \in {ib.last, "none"}
               /\ ib'.frames = ib.frames
               /\ ib'.ntrailers = ib.ntrailers]_vars

\* poll_frame was called again after it yielded the trailer frame
C12_Witness ==
    /\ ib.ntrailers = 1
    /\ ib.frames >= 1
    /\ ib.last = "none"
    /\ ib.state = "None"

\* C13: Body::contents is idempotent.  In every state where a call has
\* returned Ok(bytes) the body is the in-memory variant holding those bytes,
\* and right after the collection it holds exactly the data frames and the
\* trailers the decoder yielded; from then on, until the body is given
\* away, every step leaves the body and the result as they are and takes
\* nothing from the host (no byte of the stream, no trailers), so a later
\* call answers with the same bytes and no host read.
C13_ContentsIdempotent ==
    /\ [](ib.pc = "done" /\ ib.result.ok =>
            /\ ib.inner.kind = "Complete"
            /\ ib.result = Ok(Len(ib.inner.data))
            /\ (~ib.cached => ib.inner = Complete(ib.bufs, ib.trailers)))
    /\ [][(ib.pc = "done" /\ ib.result.ok) =>
            /\ ib'.pc \in {"done", "moved"}
            /\ ib'.result = ib.result
            /\ ib'.inner = ib.inner
            /\ inS'.got = inS.got
            /\ (hb'.ft = "taken" => hb.ft = "taken")]_vars

\* a second call answered from the in-memory variant after a collection of
\* several bytes and trailers
C13_Witness ==
    /\ ib.pc = "done"
    /\ ib.result.ok
    /\ ib.cached
    /\ ib.state = "None"
    /\ Len(ib.inner.data) >= 2
    /\ ib.inner = Complete(ib.bufs, ib.trailers)
    /\ ib.trailers # None

\* C14: whenever content_length() can be called (no contents() in flight),
\* it returns Some(n) only if n is the Content-Length hint of a body still
\* in the incoming variant, or the body was read to its end and n is the
\* number of bytes collected.
C14_ContentLengthExact ==
    ib.pc \in {"idle", "done", "dropped"} =>
      \A n \in content_length(ib.inner) :
        \/ ib.inner.kind = "Incoming" /\ ib.inner.hint = Some(n)
        \/ ib.state = "None" /\ n = Len(ib.bufs)

\* C16: Body::send has returned Ok only if finish was called exactly once on
\* the outgoing body and the host accepted it; finish is never called twice;
\* when send has returned an error other than the refusal of that finish (a
\* write error, an error frame, a trailer conversion error, a splice error,
\* an error of the incoming trailers), and when its future was dropped, the
\* outgoing body was dropped and finish was never called.
C16_FinishOnlyOnSuccess ==
    /\ hb.finishes <= 1
    /\ (sd.pc = "done" /\ sd.result.ok => hb.finishes = 1 /\ hb.out = "finished")
    /\ (sd.pc = "done" /\ ~sd.result.ok =>
          \/ hb.finishes = 0 /\ hb.out = "dropped"
          \/ hb.finishes = 1 /\ hb.out = "failed")
    /\ (sd.pc = "dropped" => hb.finishes = 0 /\ hb.out = "dropped")
    /\ (hb.out = "finished" => sd.pc = "done" /\ sd.result.ok)

\* an incoming body whose copy failed after the splice had moved bytes
C16_Witness ==
    /\ sd.pc = "done"
    /\ ~sd.result.ok
    /\ sd.body.kind = "Incoming"
    /\ cp.spliced >= 1
    /\ hb.finishes = 0
    /\ hb.out = "dropped"

\* the Fields of the last trailers frame among the first n frames
RECURSIVE LastTrailers(_, _)
LastTrailers(frames, n) ==
    IF n = 0 THEN None
    ELSE IF frames[n].kind = "trailers" THEN Some(header_map_to_wasi(frames[n].map).fields)
    ELSE LastTrailers(frames, n - 1)

\* C17: when a frame-producing body has been sent with success, the
\* outgoing body was finished with the trailers of the last trailers frame
\* (none if there was no such frame) and the stream received the data of
\* every data frame in order, those after a trailers frame included; the
\* host holds no trailers of a body that is not finished.
C17_LastTrailersAtFinish ==
    /\ (sd.pc = "done" /\ sd.result.ok /\ sd.body.kind = "Boxed" =>
          /\ hb.trailers = LastTrailers(sd.body.frames, Len(sd.body.frames))
          /\ outS.data = FramesData(sd.body.frames))
    /\ (hb.out # "finished" => hb.trailers = None)

\* trailers, then data, then other trailers: the second ones are forwarded
C17_Witness ==
    /\ sd.pc = "done"
    /\ sd.result.ok
    /\ sd.body.kind = "Boxed"
    /\ Len(sd.body.frames) = 3
    /\ sd.body.frames[1].kind = "trailers"
    /\ sd.body.frames[2].kind = "data"
    /\ sd.body.frames[3].kind = "trailers"
    /\ sd.body.frames[1].map # sd.body.frames[3].map
    /\ hb.trailers = Some(sd.body.frames[3].map)
    /\ outS.data = sd.body.frames[2].data

\* the value v written as decimal digits after an optional "+"
DecimalDigits(v) == IF v # <<>> /\ v[1] = "+" THEN Tail(v) ELSE v

IsU64Decimal(v) ==
    /\ DecimalDigits(v) # <<>>
    /\ \A i \in 1..Len(DecimalDigits(v)) :
         \E d \in 1..10 : DigitChars[d] = DecimalDigits(v)[i]

\* the number the digits d denote, by the weight of each position
RECURSIVE PositionalValue(_)
PositionalValue(d) ==
    IF d = <<>> THEN 0
    ELSE ((CHOOSE k \in 1..10 : DigitChars[k] = d[Len(d)]) - 1)
           + 10 * PositionalValue(SubSeq(d, 1, Len(d) - 1))

\* the Content-Length values of the request, in the order of the Fields
ContentLengths(fields) == SelectSeq(fields, LAMBDA e : e[1] = "content-length")

\* the states in which the request has been decoded or refused for its
\* Content-Length, and the handler has not run yet
HintTaken ==
    \/ sv.pc = "run"
    \/ sv.pc = "done" /\ sv.decode = "InvalidContentLength"

\* C15, as stated: the hint is ContentLength(n) when the header is present
\* and parses as n, and Unknown in every other case.
C15_HintUnknownOtherwise ==
    HintTaken =>
      LET lens == ContentLengths(sv.req) IN
      IF lens # <<>> /\ IsU64Decimal(lens[1][2])
      THEN sv.decode = "ok"
             /\ sv.request.hint = Some(PositionalValue(DecimalDigits(lens[1][2])))
      ELSE sv.decode = "ok" /\ sv.request.hint = None

\* C15, amended: the hint is ContentLength(n), and content_length() of the
\* request body Some(n), when the first Content-Length value parses as n; it
\* is Unknown when there is no Content-Length; and when the header is
\* present but does not parse, no hint and no request are built:
\* try_from_incoming fails with InvalidContentLength and the responder sets
\* the outparam to an error.
C15_HintFromHeaders ==
    HintTaken =>
      LET lens == ContentLengths(sv.req) IN
      /\ lens = <<>> =>
           sv.decode = "ok" /\ content_length(sv.request) = None
      /\ (lens # <<>> /\ IsU64Decimal(lens[1][2])) =>
           /\ sv.decode = "ok"
           /\ sv.request.hint = Some(PositionalValue(DecimalDigits(lens[1][2])))
           /\ content_length(sv.request) = sv.request.hint
      /\ (lens # <<>> /\ ~IsU64Decimal(lens[1][2])) =>
           /\ sv.decode = "InvalidContentLength"
           /\ sv.pc = "done"
           /\ \E o \in sv.outparam : ~o.ok

\* a Content-Length that starts with a digit and does not parse
C15_Witness ==
    /\ sv.pc = "done"
    /\ sv.decode = "InvalidContentLength"
    /\ sv.req # <<>>
    /\ sv.req[1] = <<"content-length", <<"1", "x">>>>
    /\ \E o \in sv.outparam : ~o.ok

\* C18: the outparam is never set twice, and when handle is over (the
\* future has returned or a panic has ended it) it was set exactly once.
C18_CommitOnce ==
    /\ sv.sets <= 1
    /\ (sv.pc \in {"done", "panicked"} => sv.sets = 1)

\* C19: no step of Body::send is taken and no byte reaches the outgoing
\* stream before the outparam is set to Ok(response); when the body fails
\* to be sent, respond returns the error send returned, the outparam is
\* still the Ok it was set to, set once, and the outgoing body is not
\* finished; once set the outparam never changes.
C19_CommitBeforeBody ==
    /\ []((sd.pc # "idle" \/ outS.data # <<>>) =>
            sv.sets = 1 /\ \E o \in sv.outparam : o.ok)
    /\ []((sv.pc \in {"done", "panicked"} /\ sd.pc = "done" /\ ~sd.result.ok) =>
            /\ sv.respond = sd.result
            /\ sv.sets = 1
            /\ \E o \in sv.outparam : o.ok
            /\ hb.out # "finished")
    /\ [][sv.outparam # None => sv'.outparam = sv.outparam]_vars

\* the echo of a request body whose stream failed after bytes had been
\* spliced to the outgoing body
C19_Witness ==
    /\ sv.pc = "panicked"
    /\ sv.respond # NoResult
    /\ ~sv.respond.ok
    /\ sv.sets = 1
    /\ \E o \in sv.outparam : o.ok
    /\ outS.data # <<>>
    /\ hb.out = "dropped"

\* C20: the headers respond commits are the response's headers as the host
\* took them, followed, exactly when content_length() is Some(n), by one
\* Content-Length entry whose value is n in decimal, without sign and
\* without leading zero.
C20_ContentLengthHeader ==
    \A o \in sv.outparam :
      o.ok =>
        LET base == header_map_to_wasi(sv.response.headers).fields
            len == content_length(sv.response.body)
        IN /\ len = None => o.headers = base
           /\ \A n \in len :
                /\ Len(o.headers) = Len(base) + 1
                /\ SubSeq(o.headers, 1, Len(base)) = base
                /\ LET e == o.headers[Len(o.headers)] IN
                   /\ e[1] = "content-length"
                   /\ e[2] # <<>>
                   /\ \A i \in 1..Len(e[2]) : \E d \in 1..10 : DigitChars[d] = e[2][i]
                   /\ (Len(e[2]) > 1 => e[2][1] # "0")
                   /\ PositionalValue(e[2]) = n

\* a body of ten bytes or more by its hint, and one of unknown length
C20_Witness ==
    /\ sv.pc \in {"send", "done"}
    /\ \E o \in sv.outparam :
         /\ o.ok
         /\ Len(o.headers) = 2
         /\ o.headers[2] = <<"content-length", <<"1", "0">>>>
    /\ content_length(sv.response.body) = Some(10)

\* the error handed to Responder::fail: that of try_from_incoming, or the
\* one the handler returned
FailedWith == IF sv.decode # "ok" THEN sv.decode ELSE sv.run.err

\* C21: when the responder has failed, the outparam is Err(code), code
\* being the error itself when it is a host error code and
\* InternalError(text of the error) otherwise, and fail has returned
\* Err of the error it was given; whenever the handler has returned an
\* error the outparam is not an Ok response.
C21_FailReportsCode ==
    /\ ((sv.decode \notin {"none", "ok"} \/ sv.run # NoResult) =>
          /\ sv.pc = "done"
          /\ sv.sets = 1
          /\ sv.result = Err(FailedWith)
          /\ \A o \in sv.outparam :
               /\ ~o.ok
               /\ FailedWith \in ErrorCodes => o.code = [kind |-> FailedWith, msg |-> ""]
               /\ FailedWith \notin ErrorCodes =>
                    o.code = [kind |-> "InternalError", msg |-> FailedWith]
          /\ sv.outparam # None)
    /\ (sv.result # NoResult => sv.decode \notin {"none", "ok"} \/ sv.run # NoResult)

\* a handler that returned a host error code
C21_Witness ==
    /\ sv.pc = "done"
    /\ sv.decode = "ok"
    /\ sv.run = Err("ConnectionReadTimeout")
    /\ sv.result = sv.run
    /\ \E o \in sv.outparam : o.code.kind = "ConnectionReadTimeout"

\* the whole request body has reached the outgoing stream
BodySent ==
    IF cl.body.kind = "Complete" THEN outS.data = cl.body.data
    ELSE outS.data = inS.got \o inS.avail \o inS.future

\* C22: Client::send has returned Ok only if the body branch returned Ok
\* with the whole body sent and the outgoing body finished, and the
\* response branch decoded a response; when a branch has failed, send has
\* returned the error of that branch (a host error code of the response
\* branch as that code) and the other branch was dropped or was over.
C22_BothBranches ==
    /\ (cl.pc = "done" /\ cl.result.ok) =>
         /\ sd.pc = "done" /\ sd.result.ok
         /\ hb.out = "finished"
         /\ cl.resp = "ok"
         /\ BodySent
    /\ (cl.pc = "done" /\ ~cl.result.ok /\ cl.handled = 1) =>
         \/ /\ sd.pc = "done" /\ ~sd.result.ok
            /\ cl.result = sd.result
            /\ cl.resp \in {"ok", "dropped"}
         \/ /\ cl.resp = "err"
            /\ cl.result.err \in {"Other"} \cup ErrorCodes
            /\ sd.pc = "dropped" \/ (sd.pc = "done" /\ sd.result.ok)

\* C23: once the body branch has started, the response branch gets to read
\* and decode the response, or send returns, whether or not the body branch
\* ever gets on: the response is not held back by a body that waits for
\* write readiness.
C23_Interleaved ==
    (cl.pc = "zip" /\ sd.pc # "idle") ~> (cl.pc # "zip" \/ cl.resp = "ok")

\* the response head is decoded while the body waits for write readiness
C23_Witness ==
    /\ cl.pc = "zip"
    /\ cl.resp = "ok"
    /\ sd.pc = "write_all"
    /\ wr.pc = "await"
    /\ outS.data # cl.body.data

\* a configured timeout that the host does not support
RejectedOption ==
    \E o \in cl.options : \E f \in DOMAIN o : o[f] # None /\ f \notin cl.supported

\* C24: when the host rejects a configured timeout, send has returned an
\* error (not supported, unless the request itself was rejected first) and
\* handle was not invoked; handle is given the options of the Client, none
\* when no timeout was ever set; and each setter changes its own timeout
\* and leaves the other two as they were (unset in a fresh Client).
C24_Timeouts ==
    /\ []((cl.pc # "idle" /\ RejectedOption) =>
            /\ cl.pc = "done"
            /\ cl.result.err \in {"NotSupported", "Other"}
            /\ cl.handled = 0)
    /\ [](cl.result.err = "NotSupported" => RejectedOption /\ cl.handled = 0)
    /\ [](cl.handled = 1 => cl.hopts = cl.options)
    /\ [][(cl.pc = "idle" /\ cl'.pc = "idle" /\ cl'.options # cl.options) =>
            \E f \in {"connect", "first_byte", "between_bytes"} :
              \E n \in cl'.options :
                /\ n[f] # None
                /\ \A g \in DOMAIN n \ {f} :
                     IF cl.options = None THEN n[g] = None
                     ELSE \A o \in cl.options : n[g] = o[g]]_vars

\* two timeouts configured, the host supports one of them
C24_Witness ==
    /\ cl.pc = "done"
    /\ cl.result = Err("NotSupported")
    /\ cl.handled = 0
    /\ \E o \in cl.options :
         /\ o.connect # None /\ "connect" \in cl.supported
         /\ o.first_byte # None /\ "first_byte" \notin cl.supported
         /\ o.between_bytes = None

IncomingSendOrder ==
    <<"in.stream", "out.write">> \o DropInput \o DropOutput \o <<"in.finish", "out.finish">>

\* C30: unless it was dropped or returned an error, the host calls of
\* Incoming::send are an initial part of: take both streams, release both,
\* finish the incoming body, finish the outgoing body;
\* the splices all come before the streams are dropped; the incoming body
\* is finished only once its stream has closed with every byte spliced;
\* and the outgoing body is finished with the trailers the host resolved
\* for the incoming body, none when there were none.
C30_IncomingSendOrder ==
    sd.body.kind = "Incoming" =>
      /\ (sd.pc # "dropped" /\ (sd.pc = "done" => sd.result.ok) =>
            IsPrefix(sd.calls, IncomingSendOrder))
      /\ (cp.pc \notin {"idle", "done"} => sd.calls = <<"in.stream", "out.write">>)
      /\ (InSeq("in.finish", sd.calls) =>
            /\ inS.end # "open"
            /\ inS.avail = <<>> /\ inS.future = <<>>
            /\ outS.data = inS.got)
      /\ (hb.finishes = 1 =>
            /\ sd.calls = IncomingSendOrder
            /\ sd.in_trailers.ok
            /\ hb.out = "finished" => hb.trailers = sd.in_trailers.fields)

(***************************************************************************)
(* Claims about TCP streams and time.                                      *)
(***************************************************************************)
\* C26: connect calls connect_addr with the addresses in their order, one at
\* a time; it returns the stream of the first address the host connects,
\* having tried none after it; when every address fails it returns the
\* error of the last one, InvalidInput when there is no address; and it
\* does so for addresses of either family, so it never panics.
C26_ConnectInOrder ==
    /\ tcp.pc # "panicked"
    /\ tcp.tried = [k \in 1..Len(tcp.tried) |-> k]
    /\ tcp.result.ok =>
         /\ tcp.result = Ok(tcp.i)
         /\ tcp.addrs[tcp.i].stage = "ok"
         /\ \A j \in 1..(tcp.i - 1) : tcp.addrs[j].stage # "ok"
         /\ Len(tcp.tried) = tcp.i
    /\ tcp.pc = "failed" =>
         /\ Len(tcp.tried) = Len(tcp.addrs)
         /\ \A j \in 1..Len(tcp.addrs) : tcp.addrs[j].stage # "ok"
         /\ tcp.result = IF tcp.addrs = <<>>
                         THEN Err("InvalidInput")
                         ELSE Err(to_io_err(tcp.addrs[Len(tcp.addrs)].code))

\* C27: a step that drops a ReadHalf adds one Receive shutdown and nothing
\* else, a step that drops a WriteHalf one Send shutdown and nothing else,
\* and the step that drops the stream adds one Both shutdown followed by
\* the release of its input adapter, its output adapter and its socket;
\* nothing else shuts the socket down.
C27_ShutdownOnDrop ==
    [][/\ (tcp'.reads < tcp.reads =>
             /\ tcp'.calls = Append(tcp.calls, "shutdown Receive")
             /\ tcp'.writes = tcp.writes)
       /\ (tcp'.writes < tcp.writes =>
             /\ tcp'.calls = Append(tcp.calls, "shutdown Send")
             /\ tcp'.reads = tcp.reads)
       /\ (tcp.pc = "connected" /\ tcp'.pc = "released" =>
             tcp'.calls = tcp.calls \o <<"shutdown Both", "drop input", "drop output",
                                         "drop socket">>)
       /\ (tcp'.calls # tcp.calls =>
             \/ tcp'.reads < tcp.reads
             \/ tcp'.writes < tcp.writes
             \/ tcp'.pc = "released")]_vars

C27_Witness ==
    /\ tcp.pc = "released"
    /\ tcp.calls = <<"shutdown Receive", "shutdown Send", "shutdown Send",
                     "shutdown Receive", "shutdown Both", "drop input", "drop output",
                     "drop socket">>

\* C28: the timer of the first item of an Interval is due d after the first
\* call of next, the timer of every later item d after the previous yield,
\* however late next was called again; an item is yielded no earlier than
\* its timer is due.
C28_IntervalPeriod ==
    tm.pc \in {"waiting", "yielded"} =>
      /\ tm.deadline = tm.d + (IF tm.prev = None THEN tm.called
                               ELSE CHOOSE t \in tm.prev : TRUE)
      /\ (tm.pc = "yielded" => tm.item >= tm.deadline)

\* the nanoseconds of a second, at the scale of the model
NanosPerSecond == MaxNanoseconds + 1

AsNanos(t) == t.seconds * NanosPerSecond + t.nanoseconds

\* C29: duration_since returns Ok exactly when self is not earlier than
\* earlier, ordered by seconds and then nanoseconds; the duration is then
\* self minus earlier, zero for equal values, and neither part of it is
\* negative.
C29_DurationSince ==
    \A c \in tm.since :
      /\ c.result.ok <=> AsNanos(c.self) >= AsNanos(c.earlier)
      /\ c.result.ok =>
           /\ c.result.seconds >= 0 /\ c.result.nanoseconds >= 0
           /\ AsNanos(c.result) = AsNanos(c.self) - AsNanos(c.earlier)

(***************************************************************************)
(* Claims about the release of host resources.                             *)
(***************************************************************************)
\* every release of the parent in the log comes after a release of the child
Precedes(child, parent, log) ==
    \A j \in 1..Len(log) :
      log[j] = parent => \E i \in 1..(j - 1) : log[i] = child

\* C31: on every path, the normal end, an early error return and the drop of
\* the future, a child resource is released before its parent: a stream's
\* pollable subscription before the stream, the output stream of an
\* outgoing body before the body is finished or dropped, the input stream
\* of an incoming body before that body is finished or dropped, and a
\* listener's pollable before its socket; and a send that is over has
\* finished or dropped its outgoing body.
C31_ChildFirst ==
    /\ Precedes("drop out_stream.subscription", "drop out_stream.stream", sd.calls)
    /\ Precedes("drop out_stream.stream", "out.finish", sd.calls)
    /\ Precedes("drop out_stream.stream", "drop outgoing_body", sd.calls)
    /\ Precedes("drop in_stream.subscription", "drop in_stream.stream", sd.calls)
    /\ Precedes("drop in_stream.stream", "in.finish", sd.calls)
    /\ Precedes("drop in_stream.stream", "drop in_body", sd.calls)
    /\ (sd.pc \in {"done", "dropped"} =>
          InSeq("out.finish", sd.calls) \/ InSeq("drop outgoing_body", sd.calls))
    /\ Precedes("drop read_state.subscription", "drop read_state.stream", ib.rel)
    /\ Precedes("drop read_state.stream", "in.finish", ib.rel)
    /\ Precedes("drop read_state.stream", "drop in_body", ib.rel)
    /\ (InSeq("socket.subscribe", tcp.calls) =>
          Precedes("drop pollable", "drop socket", tcp.calls))
    /\ (tcp.pc = "released" => InSeq("drop socket", tcp.calls))

C31_Witness ==
    /\ tcp.pc = "released"
    /\ sd.pc = "dropped"
    /\ sd.body.kind = "Incoming"
    /\ InSeq("drop in_body", sd.calls)

(***************************************************************************)
(* Claims about failed collections, block_on, headers and byte streams.    *)
(***************************************************************************)
\* C34: once contents() has returned Err or its future was dropped before
\* it completed, the body is not the in-memory variant with zero bytes and
\* no trailers, so a later contents() cannot answer Ok with empty data.
C34_FailedCollection ==
    (ib.pc = "dropped" \/ (ib.pc = "done" /\ ~ib.result.ok)) =>
      ib.inner # Complete(<<>>, None)

\* C35: after a nested block_on has panicked as a re-entry, the singleton
\* still holds the reactor of the outer block_on.
C35_ReentryKeepsSingleton ==
    (pc = "panicked" /\ last.kind = "reentry") => REACTOR = Some(outer)

\* C36: when the driver loop has ended and when block_on has returned, the
\* ready list is empty, no pollable has a waiting task, and every task is
\* complete or parked where nothing can wake it: the completion of the root
\* task alone does not end the loop.
C36_ExitWhenDrained ==
    (pc = "final" \/ (pc = "idle" /\ last.kind = "return")) =>
      /\ ready_list = <<>>
      /\ PendingPollables(wakers) = {}
      /\ \A i \in DOMAIN tasks :
           \/ tasks[i].state = "done"
           \/ tasks[i].state = "parked" /\ \A p \in Pollables : ~InSeq(i, wakers[p])

\* block_on has returned after a spawned task that waited for a timer, and
\* the root task did not wait for it
C36_Witness ==
    /\ pc = "idle"
    /\ last.kind = "return"
    /\ Len(tasks) = 2
    /\ tasks[Root].prog = <<Op("Spawn", 1)>>
    /\ tasks[2].state = "done"

\* C37: the headers respond commits hold at most one Content-Length entry,
\* also when the response's header map came with one.
C37_OneContentLength ==
    \A o \in sv.outparam :
      o.ok => Cardinality({i \in 1..Len(o.headers) : o.headers[i][1] = "content-length"}) <= 1

\* C38: Client::send never panics: a request the host's handle refuses
\* ends in a returned Err that carries the host's error code.
C38_HandleErrorReturned ==
    /\ cl.pc # "panicked"
    /\ (cl.pc = "done" /\ cl.handled = 1 /\ cl.resp = "idle") =>
         ~cl.result.ok /\ cl.result.err \in ErrorCodes

\* C40: within one call of the decoder's poll_frame, the pollable is found
\* ready after an empty read at most once: the call then reads data, the
\* end of the stream or a failure, or it returns Pending.
C40_BoundedReads ==
    ib.spins <= 1


(***************************************************************************)
(* Claims about shared streams, chunk streams and byte streams.            *)
(***************************************************************************)
\* C32: at most one read is outstanding on an AsyncInputStream: while one
\* caller's read has not returned no other caller's read of the stream has
\* started, and the stored WaitFor is never polled with the waker of
\* another task than the one it was polled with before.
C32_OneOutstanding ==
    /\ Cardinality({t \in 1..NumReaders : sh.readers[t].pc = "await"}) <= 1
    /\ ~sh.clash

\* C33: whenever poll_next has returned Pending, the task's waker is
\* registered with the stream's pollable.
C33_PendingRegistered ==
    bs.pc = "pending" => bs.registered

\* C39: the bytes yielded so far, followed by the rest of the buffer (the
\* bytes into_inner returns), are the bytes read from the input stream so
\* far, in their order; and the byte stream ends only when the chunk stream
\* has ended.
C39_Conservation ==
    /\ bs.yielded \o (IF bs.pc = "taken" THEN bs.inner ELSE bs.buffer) = inS.got
    /\ (bs.last = "end" => bs.chunk_last = "end" /\ inS.end = "closed" /\ InEnded(inS))

C39_Witness ==
    /\ bs.pc = "taken"
    /\ bs.yielded # <<>>
    /\ bs.inner # <<>>

=============================================================================
